---- MODULE Spec2Model ----
(***************************************************************************)
(* MPEG-TS demultiplexer and paced emitter of src/mpegts.js.               *)
(*                                                                         *)
(* The program is single threaded: a handler (an API call or a timer       *)
(* callback) runs to completion.  pc is the position of the running        *)
(* handler: "idle" when none runs, "readNext" when the producer loop is    *)
(* about to call getNextPESPacket.  While pc = "readNext" no other handler *)
(* and no clock tick is enabled, so the steps of one handler are never     *)
(* interleaved with anything else.  Every call of the producer loop is a   *)
(* tail call (return this.readNext()), so the position needs no stack.     *)
(*                                                                         *)
(* The input file is revealed as it is read: each read of a transport      *)
(* packet draws the bytes found at the reader's position.                  *)
(***************************************************************************)
EXTENDS Integers, Sequences, FiniteSets, TLC

\* ------------------------------------------------------------ constants
SYNC_BYTE == 71
PID_PROGRAM_ASSOCIATION_TABLE == 0
STREAM_TYPE_AUDIO_ADTS == 15
STREAM_TYPE_H264 == 27
SETTIMEOUT_ADVANCE_TIME == 20
TS_PACKET_SIZE == 188
PES_STREAM_ID_PROGRAM_STREAM_MAP == 188
PES_STREAM_ID_PADDING_STREAM == 190
PES_STREAM_ID_PRIVATE_STREAM_2 == 191
PES_STREAM_ID_ECM == 240
PES_STREAM_ID_EMM == 241
PES_STREAM_ID_PROGRAM_STREAM_DIRECTORY == 255
PES_STREAM_ID_DSMCC_STREAM == 242
PES_STREAM_ID_ITU_T_REC_H_222_1_TYPE_E_STREAM == 248

\* ------------------------------------------------------------ bounds
\* transport packets read in a session, per family of input streams
MaxPackets == 4
MaxTablePackets == 4
MaxDrainPackets == 9
\* bytes skipped in front of the first sync byte
MaxSkip == 1
MaxRestartPackets == 3
MaxSessions == 2
MaxStrLen == 4
MaxAdaptationPackets == 4
MaxPsiPackets == 4
MaxLines == 4

\* ------------------------------------------------------------ values
\* a JavaScript null/undefined is None, a value v is Some(v)
None == <<>>
Some(v) == <<v>>
Val(o) == o[1]

\* ------------------------------------------------------------ the input
\* PIDs of the input streams: an elementary stream below and one above the
\* PIDs of the program map tables (the buffers are flushed in PID order)
LowEsPid == 255
PmtPid == 256
HighEsPid == 257
Pmt2Pid == 258
PIDs == {PID_PROGRAM_ASSOCIATION_TABLE, LowEsPid, PmtPid, HighEsPid, Pmt2Pid}

\* payload of a transport packet that starts a unit (PUSI = 1): a PAT section,
\* a PMT section, a PES header, or bytes that are none of these; the payload of
\* a packet that continues a unit is Continuation
\* A section starts after pointer_field and the pointer_field bytes that
\* follow it (skipped).
PatSectionAt(skipped, pids) ==
  [kind |-> "pat", pointer_field |-> Len(skipped), skipped |-> skipped,
   program_map_PIDs |-> pids]
PmtSectionAt(skipped, streams) ==
  [kind |-> "pmt", pointer_field |-> Len(skipped), skipped |-> skipped,
   streams |-> streams]
PatSection(pids) == PatSectionAt(<<>>, pids)
PmtSection(streams) == PmtSectionAt(<<>>, streams)
H264(pid) == [stream_type |-> STREAM_TYPE_H264, elementary_PID |-> pid]
ADTS(pid) == [stream_type |-> STREAM_TYPE_AUDIO_ADTS, elementary_PID |-> pid]
\* stream_type 0x03 (MPEG-1 audio) and 0x02 (MPEG-2 video): other types
OtherStream(stream_type, pid) == [stream_type |-> stream_type, elementary_PID |-> pid]
PesHeader(stream_id, flags, pts, dts) ==
  [kind |-> "pes", stream_id |-> stream_id, PTS_DTS_flags |-> flags, PTS |-> pts, DTS |-> dts]
Continuation == [kind |-> "cont"]
Malformed == [kind |-> "bad"]

\* a transport packet of the input: the header fields that the demultiplexer
\* uses, the adaptation field (None when the packet carries none) and the bytes
\* that follow it; Start and Cont carry a payload only (adaptation_field_control 1)
Start(pid, payload) ==
  [pid |-> pid, payload_unit_start_indicator |-> 1, adaptation_field_control |-> 1,
   adaptation_field |-> None, data |-> payload]
Cont(pid) ==
  [pid |-> pid, payload_unit_start_indicator |-> 0, adaptation_field_control |-> 1,
   adaptation_field |-> None, data |-> Continuation]

\* info.data of a packet whose payload was not read (undefined)
Undefined == [kind |-> "undefined"]

\* an adaptation field of the input: the length byte, the flags of the byte that
\* follows it, the length byte of the private data and the flags of the extension
NoFlags ==
  [pcr_flag |-> 0, opcr_flag |-> 0, splicing_point_flag |-> 0,
   transport_private_data_flag |-> 0, transport_private_data_length |-> 0,
   adaptation_field_extension_flag |-> 0, ltw_flag |-> 0, piecewise_rate_flag |-> 0,
   seamless_splice_flag |-> 0]
AdaptationField(length, flags) == [adaptation_field_length |-> length] @@ flags
Pcr == [NoFlags EXCEPT !.pcr_flag = 1]
PcrOpcr == [NoFlags EXCEPT !.pcr_flag = 1, !.opcr_flag = 1]
Opcr == [NoFlags EXCEPT !.opcr_flag = 1]
Extension ==
  [NoFlags EXCEPT !.splicing_point_flag = 1, !.transport_private_data_flag = 1,
                  !.transport_private_data_length = 2,
                  !.adaptation_field_extension_flag = 1, !.ltw_flag = 1,
                  !.piecewise_rate_flag = 1, !.seamless_splice_flag = 1]

\* a packet without payload (adaptation_field_control 2), a packet with an
\* adaptation field and a payload that continues a unit (3), and a packet
\* with the reserved adaptation_field_control 0
AdaptationOnly(pid, af) ==
  [pid |-> pid, payload_unit_start_indicator |-> 0, adaptation_field_control |-> 2,
   adaptation_field |-> Some(af), data |-> Continuation]
WithAdaptation(pid, af) ==
  [pid |-> pid, payload_unit_start_indicator |-> 0, adaptation_field_control |-> 3,
   adaptation_field |-> Some(af), data |-> Continuation]
ReservedControl(pid) ==
  [pid |-> pid, payload_unit_start_indicator |-> 0, adaptation_field_control |-> 0,
   adaptation_field |-> None, data |-> Continuation]

\* stream_id 0xE0 is video, 0xC0 audio, 0xBD private_stream_1 (neither)
VideoPts(pts) == PesHeader(224, 2, Some(pts), None)
AudioPts(pts) == PesHeader(192, 2, Some(pts), None)

\* Streams for the pacing: one program, one elementary PID that carries video
\* and audio PES with timestamps 0, 20.33 ms and 30 ms, with and without DTS,
\* a PES without PTS and a PES that is neither audio nor video.
PacingPackets ==
  { Start(PID_PROGRAM_ASSOCIATION_TABLE, PatSection({PmtPid})),
    Start(PmtPid, PmtSection(<<H264(HighEsPid)>>)),
    Cont(HighEsPid) }
  \cup { Start(HighEsPid, h) :
           h \in { AudioPts(0),
                   AudioPts(2700),
                   PesHeader(224, 3, Some(2700), Some(1830)),
                   PesHeader(192, 3, Some(0), Some(1830)),
                   PesHeader(224, 0, None, None),
                   PesHeader(189, 2, Some(0), None) } }

\* Streams for the tables: one or two programs, program maps that declare one
\* or both elementary PIDs, PES on both elementary PIDs, a malformed PAT.
TablePackets ==
  { Start(PID_PROGRAM_ASSOCIATION_TABLE, PatSection({PmtPid})),
    Start(PID_PROGRAM_ASSOCIATION_TABLE, PatSection({PmtPid, Pmt2Pid})),
    Start(PID_PROGRAM_ASSOCIATION_TABLE, Malformed),
    Start(PmtPid, PmtSection(<<H264(HighEsPid)>>)),
    Start(PmtPid, PmtSection(<<H264(HighEsPid), ADTS(LowEsPid)>>)),
    Start(Pmt2Pid, PmtSection(<<ADTS(LowEsPid)>>)),
    Cont(LowEsPid) }
  \cup { Start(p, h) : p \in {LowEsPid, HighEsPid},
                       h \in {VideoPts(0), VideoPts(2700), AudioPts(0)} }

\* Streams for the deferred-parse drain: one program whose program map declares
\* the low elementary PID, which carries audio and video PES.
DrainPackets ==
  { Start(PID_PROGRAM_ASSOCIATION_TABLE, PatSection({PmtPid})),
    Start(PmtPid, PmtSection(<<ADTS(LowEsPid)>>)),
    Start(LowEsPid, VideoPts(0)),
    Start(LowEsPid, AudioPts(0)) }

\* Streams for a second session: one program with a video and an audio PES.
RestartPackets ==
  { Start(PID_PROGRAM_ASSOCIATION_TABLE, PatSection({PmtPid})),
    Start(PmtPid, PmtSection(<<H264(HighEsPid)>>)),
    Start(HighEsPid, VideoPts(0)),
    Start(HighEsPid, AudioPts(2700)) }

\* Streams with adaptation fields: one program with video on the high
\* elementary PID, whose packets carry a PES header, a payload behind an
\* adaptation field (PCR, PCR and OPCR, OPCR, all other fields, stuffing only,
\* an empty field, a field shorter than the fields its flags announce), an
\* adaptation field without payload (of the whole packet and shorter), or the
\* reserved adaptation_field_control 0.
AdaptationPackets ==
  { Start(PID_PROGRAM_ASSOCIATION_TABLE, PatSection({PmtPid})),
    Start(PmtPid, PmtSection(<<H264(HighEsPid)>>)),
    Start(HighEsPid, VideoPts(0)),
    ReservedControl(HighEsPid),
    AdaptationOnly(HighEsPid, AdaptationField(183, Pcr)),
    AdaptationOnly(HighEsPid, AdaptationField(7, Pcr)) }
  \cup { WithAdaptation(HighEsPid, af) :
           af \in { AdaptationField(7, Pcr),
                    AdaptationField(13, PcrOpcr),
                    AdaptationField(7, Opcr),
                    AdaptationField(20, Extension),
                    AdaptationField(5, NoFlags),
                    AdaptationField(0, NoFlags),
                    AdaptationField(1, Pcr) } }

\* Streams for the tables with pointer_field: one program; PAT and PMT sections
\* that start right after pointer_field or after one or two bytes (0xFF, or
\* 0x00 and 0xFF); program maps with streams of type H.264, ADTS and other
\* types, several of a type, none; a video PES on the high elementary PID.
PsiPackets ==
  { Start(PID_PROGRAM_ASSOCIATION_TABLE, PatSectionAt(k, {PmtPid})) :
      k \in {<<>>, <<255>>, <<0, 255>>} }
  \cup { Start(PmtPid, PmtSectionAt(k, <<H264(HighEsPid)>>)) : k \in {<<>>, <<255>>} }
  \cup { Start(PmtPid, PmtSection(streams)) :
           streams \in { <<OtherStream(3, LowEsPid), OtherStream(2, HighEsPid)>>,
                         <<H264(LowEsPid), ADTS(LowEsPid), H264(HighEsPid)>>,
                         <<ADTS(HighEsPid), OtherStream(3, LowEsPid)>>,
                         <<>> } }
  \cup { Start(HighEsPid, VideoPts(0)) }

\* instants (ms after the call of startStreaming) at which handlers run
TimePoints == {0, 5, 10}
InitialSkips == {0, 5}

VARIABLES
  tsBuf,                    \* "null" or "file": the buffer read by open()
  tsBits,                   \* the reader: None, or Some([packets, offset]): the transport
                            \* packets decoded and the bytes consumed since the sync lock
  isSyncByteDetermined,
  programTable,             \* the program_map_PIDs of the current PAT
  unparsedPESPackets,
  audioPID, videoPID,
  pendingVideoPesPackets, pendingAudioPesPackets,
  streamingStartTime, firstDTS,
  bufferingPESData,         \* PID -> tmp.data, for the PIDs with an open buffer
  isEOF,
  timers,                   \* callbacks scheduled by setImmediate / setTimeout
  now,                      \* Date.now(), in ms
  pc,                       \* position of the running handler
  emitted,                  \* events emitted by the last step, in order
  hist,                     \* history of the session (not program state)
  stream,                   \* the family of input streams: [packets, limit]
  sdp                       \* src/sdp.js: the input and the results of createSDP and parse

vars == << tsBuf, tsBits, isSyncByteDetermined, programTable, unparsedPESPackets,
           audioPID, videoPID, pendingVideoPesPackets, pendingAudioPesPackets,
           streamingStartTime, firstDTS, bufferingPESData, isEOF, timers, now, pc,
           emitted, hist, stream, sdp >>

\* the variables of src/mpegts.js
demuxer == << tsBuf, tsBits, isSyncByteDetermined, programTable, unparsedPESPackets,
              audioPID, videoPID, pendingVideoPesPackets, pendingAudioPesPackets,
              streamingStartTime, firstDTS, bufferingPESData, isEOF, timers, now, pc,
              emitted, hist, stream >>

\* ------------------------------------------------------------ handler state
\* The module-level cells of src/mpegts.js as one record, so that the program's
\* functions are operators from state to state.
State ==
  [ tsBuf |-> tsBuf, tsBits |-> tsBits, isSyncByteDetermined |-> isSyncByteDetermined,
    programTable |-> programTable, unparsedPESPackets |-> unparsedPESPackets,
    audioPID |-> audioPID, videoPID |-> videoPID,
    pendingVideoPesPackets |-> pendingVideoPesPackets,
    pendingAudioPesPackets |-> pendingAudioPesPackets,
    streamingStartTime |-> streamingStartTime, firstDTS |-> firstDTS,
    bufferingPESData |-> bufferingPESData, isEOF |-> isEOF, timers |-> timers,
    pc |-> pc, emitted |-> <<>>,
    hist |-> [hist EXCEPT !.returned = FALSE, !.api = None, !.lock = None, !.got = None,
                          !.started = FALSE, !.enqueued = FALSE,
                          !.failed = FALSE, !.ts = None] ]

Commit(st) ==
  /\ tsBuf' = st.tsBuf
  /\ tsBits' = st.tsBits
  /\ isSyncByteDetermined' = st.isSyncByteDetermined
  /\ programTable' = st.programTable
  /\ unparsedPESPackets' = st.unparsedPESPackets
  /\ audioPID' = st.audioPID
  /\ videoPID' = st.videoPID
  /\ pendingVideoPesPackets' = st.pendingVideoPesPackets
  /\ pendingAudioPesPackets' = st.pendingAudioPesPackets
  /\ streamingStartTime' = st.streamingStartTime
  /\ firstDTS' = st.firstDTS
  /\ bufferingPESData' = st.bufferingPESData
  /\ isEOF' = st.isEOF
  /\ timers' = st.timers
  /\ pc' = st.pc
  /\ emitted' = st.emitted
  /\ hist' = st.hist

\* An exception leaves the running handler: the handler stops where it is, the
\* state keeps what was already assigned, and the callbacks already scheduled
\* stay scheduled.  "threw" marks the handler as left by an exception until the
\* step ends (Finish).
Throw(st) == [st EXCEPT !.pc = "threw"]
Finish(st) ==
  IF st.pc = "threw"
    THEN [st EXCEPT !.pc = "idle", !.hist.uncaught = TRUE, !.hist.failed = TRUE]
    ELSE st

\* ------------------------------------------------------------ events
\* emit(name, data): the listeners see the event; the history keeps, per kind,
\* the PES emitted so far (PID, ordinal on that PID, DTS)
emit(st, name, pesInfo) ==
  [st EXCEPT !.emitted = Append(@, [name |-> name, pes |-> pesInfo.pes]),
             !.hist.out[name] = Append(@, [pid |-> pesInfo.pes.pid, seq |-> pesInfo.pes.seq,
                                           DTS |-> Val(pesInfo.pes.DTS)])]

emitEnd(st) ==
  [st EXCEPT !.emitted = Append(@, [name |-> "end", pes |-> None]),
             !.hist.nEnd = IF @ < 2 THEN @ + 1 ELSE @]

\* ------------------------------------------------------------ pacing
\* Math.round of y/90, for y in 1/90 ms: floor(y/90 + 1/2)
MathRound90(y) == (y + 45) \div 90

\* getTimeUntilDTS(dts), in units of 1/90 ms (the value is a fraction of a ms)
\* getTimeUntilDTS that counts from DTS 0 when no first DTS is known
getTimeUntilDTSFromZero(st, dts) ==
  IF st.firstDTS = None
    THEN [threw |-> FALSE, value90 |-> 0]
    ELSE [threw |-> FALSE,
          value90 |-> (90 * Val(st.streamingStartTime) + (dts - Val(st.firstDTS))) - 90 * now]

getTimeUntilDTS(st, dts) ==
  IF st.firstDTS = None
    THEN [threw |-> TRUE, value90 |-> 0]
    ELSE [threw |-> FALSE,
          value90 |-> (90 * Val(st.streamingStartTime) + (dts - Val(st.firstDTS))) - 90 * now]

setImmediate(st, callback, doNotReadNext) ==
  [st EXCEPT !.timers = Append(@, [callback |-> callback, doNotReadNext |-> doNotReadNext,
                                   at |-> now])]

\* setTimeout that schedules nothing
setTimeoutNever(st, callback, doNotReadNext, timeDiff) == st

setTimeout(st, callback, doNotReadNext, timeDiff) ==
  [st EXCEPT !.timers = Append(@, [callback |-> callback, doNotReadNext |-> doNotReadNext,
                                   at |-> now + timeDiff])]

\* checkEnd that forgets the video queue
checkEndAudioOnly(st) ==
  IF st.isEOF /\ Len(st.pendingAudioPesPackets) = 0
    THEN [st |-> emitEnd(st), result |-> TRUE]
    ELSE [st |-> st, result |-> FALSE]

checkEnd(st) ==
  IF st.isEOF /\ Len(st.pendingAudioPesPackets) = 0 /\ Len(st.pendingVideoPesPackets) = 0
    THEN [st |-> emitEnd(st), result |-> TRUE]
    ELSE [st |-> st, result |-> FALSE]

\* this.readNext() as a tail call: the producer loop runs next
callReadNext(st) == [st EXCEPT !.pc = "readNext"]

RECURSIVE consumeVideo(_, _)
consumeVideo(st, doNotReadNext) ==
  LET pendingLen == Len(st.pendingVideoPesPackets) IN
  IF pendingLen > 0
    THEN LET pesInfo == Head(st.pendingVideoPesPackets)
             st1 == emit([st EXCEPT !.pendingVideoPesPackets = Tail(@)], "video", pesInfo)
         IN IF pendingLen = 1
              THEN IF ~doNotReadNext
                     THEN LET ce == checkEnd(st1)
                          IN IF ~ce.result THEN callReadNext(ce.st) ELSE ce.st
                     ELSE st1
              ELSE LET t == getTimeUntilDTS(st1, Val(Head(st1.pendingVideoPesPackets).pes.DTS))
                       timeDiff == MathRound90(t.value90 - 90 * SETTIMEOUT_ADVANCE_TIME)
                   IN IF t.threw THEN Throw(st1)
                      ELSE IF timeDiff <= 0 THEN consumeVideo(st1, doNotReadNext)
                      ELSE setTimeout(st1, "consumeVideo", doNotReadNext, timeDiff)
    ELSE st

RECURSIVE consumeAudio(_, _)
consumeAudio(st, doNotReadNext) ==
  LET pendingLen == Len(st.pendingAudioPesPackets) IN
  IF pendingLen > 0
    THEN LET pesInfo == Head(st.pendingAudioPesPackets)
             st1 == emit([st EXCEPT !.pendingAudioPesPackets = Tail(@)], "audio", pesInfo)
         IN IF pendingLen = 1
              THEN IF ~doNotReadNext
                     THEN LET ce == checkEnd(st1)
                          IN IF ~ce.result THEN callReadNext(ce.st) ELSE ce.st
                     ELSE st1
              ELSE LET t == getTimeUntilDTS(st1, Val(Head(st1.pendingAudioPesPackets).pes.DTS))
                       timeDiff == MathRound90(t.value90 - 90 * SETTIMEOUT_ADVANCE_TIME)
                   IN IF t.threw THEN Throw(st1)
                      ELSE IF timeDiff <= 0 THEN consumeAudio(st1, doNotReadNext)
                      ELSE setTimeout(st1, "consumeAudio", doNotReadNext, timeDiff)
    ELSE st

\* queueVideo that loses the packet
queueVideoLost(st, pesInfo, doNotReadNext) == st

queueVideo(st, pesInfo, doNotReadNext) ==
  LET st1 == [st EXCEPT !.pendingVideoPesPackets = Append(@, pesInfo)] IN
  IF Len(st1.pendingVideoPesPackets) = 1
    THEN LET t == getTimeUntilDTS(st1, Val(pesInfo.pes.DTS))
             timeDiff == MathRound90(t.value90 - 90 * SETTIMEOUT_ADVANCE_TIME)
         IN IF t.threw THEN Throw(st1)
            ELSE IF timeDiff <= 0 THEN setImmediate(st1, "consumeVideo", doNotReadNext)
            ELSE setTimeout(st1, "consumeVideo", doNotReadNext, timeDiff)
    ELSE st1

\* queueAudio that puts the packet at the head of the queue
queueAudioFront(st, pesInfo, doNotReadNext) ==
  LET st1 == [st EXCEPT !.pendingAudioPesPackets = <<pesInfo>> \o @] IN
  IF Len(st1.pendingAudioPesPackets) = 1
    THEN LET t == getTimeUntilDTS(st1, Val(pesInfo.pes.DTS))
             timeDiff == MathRound90(t.value90 - 90 * SETTIMEOUT_ADVANCE_TIME)
         IN IF t.threw THEN Throw(st1)
            ELSE IF timeDiff <= 0 THEN setImmediate(st1, "consumeAudio", doNotReadNext)
            ELSE setTimeout(st1, "consumeAudio", doNotReadNext, timeDiff)
    ELSE st1

\* queueAudio that never waits
queueAudioNow(st, pesInfo, doNotReadNext) ==
  LET st1 == [st EXCEPT !.pendingAudioPesPackets = Append(@, pesInfo)] IN
  IF Len(st1.pendingAudioPesPackets) = 1
    THEN setImmediate(st1, "consumeAudio", doNotReadNext)
    ELSE st1

queueAudio(st, pesInfo, doNotReadNext) ==
  LET st1 == [st EXCEPT !.pendingAudioPesPackets = Append(@, pesInfo)] IN
  IF Len(st1.pendingAudioPesPackets) = 1
    THEN LET t == getTimeUntilDTS(st1, Val(pesInfo.pes.DTS))
             timeDiff == MathRound90(t.value90 - 90 * SETTIMEOUT_ADVANCE_TIME)
         IN IF t.threw THEN Throw(st1)
            ELSE IF timeDiff <= 0 THEN setImmediate(st1, "consumeAudio", doNotReadNext)
            ELSE setTimeout(st1, "consumeAudio", doNotReadNext, timeDiff)
    ELSE st1

\* ------------------------------------------------------------ PES and PSI decoding
ReservedStreamIds ==
  { PES_STREAM_ID_PROGRAM_STREAM_MAP, PES_STREAM_ID_PADDING_STREAM,
    PES_STREAM_ID_PRIVATE_STREAM_2, PES_STREAM_ID_ECM, PES_STREAM_ID_EMM,
    PES_STREAM_ID_PROGRAM_STREAM_DIRECTORY, PES_STREAM_ID_DSMCC_STREAM,
    PES_STREAM_ID_ITU_T_REC_H_222_1_TYPE_E_STREAM }

\* (stream_id & 0xF0) == 0xE0 is video, (stream_id & 0xE0) == 0xC0 is audio
stream_id_type(stream_id) ==
  IF stream_id \div 16 = 14 THEN "video"
  ELSE IF stream_id \div 32 = 6 THEN "audio"
  ELSE "none"

\* read_pes_packet on the bytes of one PES; pid and seq are history (the PID the
\* PES came from and its ordinal on that PID), header is the header as read
read_pes_packet(bytes, pid, seq) ==
  IF bytes.kind # "pes" THEN [threw |-> TRUE, pes |-> None]    \* packet_start_code_prefix
  ELSE IF bytes.stream_id \in ReservedStreamIds THEN [threw |-> TRUE, pes |-> None]
  ELSE [threw |-> FALSE,
        pes |-> [stream_id |-> bytes.stream_id,
                 PTS_DTS_flags |-> bytes.PTS_DTS_flags,
                 PTS |-> IF bytes.PTS_DTS_flags \in {2, 3} THEN bytes.PTS ELSE None,
                 DTS |-> IF bytes.PTS_DTS_flags = 3 THEN bytes.DTS ELSE None,
                 stream_id_type |-> stream_id_type(bytes.stream_id),
                 pid |-> pid, seq |-> seq, header |-> bytes]]

\* the first two bytes of a section: table_id, and the byte that holds
\* section_syntax_indicator (1), bit_0 (0), two reserved bits and the high bits
\* of section_length (0xB0)
SectionStart(table_id) == <<table_id, 176>>

\* read_program_association_section that skips pointer_field bytes
read_program_association_sectionSkip(st, bytes) ==
  IF bytes.kind # "pat" THEN [threw |-> TRUE, st |-> st]
  ELSE [threw |-> FALSE, st |-> [st EXCEPT !.programTable = bytes.program_map_PIDs]]

\* read_program_association_section: pointer_field is read (line 469) and no
\* byte is skipped, so table_id and the flags are the two bytes that follow
\* pointer_field. The sections of the input are well formed; when the checks
\* pass on bytes in front of the section, the program loop reads no entry of it.
read_program_association_section(st, bytes) ==
  IF bytes.kind # "pat" THEN [threw |-> TRUE, st |-> st]       \* table_id must be 0x00
  ELSE LET b == bytes.skipped \o SectionStart(0)
           table_id == b[1]
           section_syntax_indicator == b[2] \div 128
           bit_0 == (b[2] \div 64) % 2
       IN IF table_id # 0 \/ section_syntax_indicator # 1 \/ bit_0 # 0
            THEN [threw |-> TRUE, st |-> st]
            ELSE [threw |-> FALSE,
                  st |-> [st EXCEPT !.programTable =
                            IF bytes.pointer_field = 0 THEN bytes.program_map_PIDs ELSE {}]]

\* an elementary-stream loop that takes every type other than H.264 as audio
RECURSIVE program_map_streamsOther(_, _)
program_map_streamsOther(st, streams) ==
  IF streams = <<>> THEN st
  ELSE program_map_streamsOther(
         IF Head(streams).stream_type = STREAM_TYPE_H264
           THEN [st EXCEPT !.videoPID = Some(Head(streams).elementary_PID)]
           ELSE [st EXCEPT !.audioPID = Some(Head(streams).elementary_PID)],
         Tail(streams))

\* the elementary-stream loop of read_program_map_section
RECURSIVE program_map_streams(_, _)
program_map_streams(st, streams) ==
  IF streams = <<>> THEN st
  ELSE LET s == Head(streams)
           st1 == IF s.stream_type = STREAM_TYPE_H264
                    THEN [st EXCEPT !.videoPID = Some(s.elementary_PID)]
                  ELSE IF s.stream_type = STREAM_TYPE_AUDIO_ADTS
                    THEN [st EXCEPT !.audioPID = Some(s.elementary_PID)]
                  ELSE st
       IN program_map_streams(st1, Tail(streams))

\* read_program_map_section: pointer_field is read and pointer_field bytes
\* are skipped (lines 386-387), then the section is read
read_program_map_section(st, bytes) ==
  IF bytes.kind # "pmt" THEN [threw |-> TRUE, st |-> st]       \* table_id must be 2
  ELSE LET all == bytes.skipped \o SectionStart(2)
           b == SubSeq(all, bytes.pointer_field + 1, Len(all))
           table_id == b[1]
           section_syntax_indicator == b[2] \div 128
           bit_0 == (b[2] \div 64) % 2
       IN IF table_id # 2 \/ section_syntax_indicator # 1 \/ bit_0 # 0
            THEN [threw |-> TRUE, st |-> st]
            ELSE [threw |-> FALSE, st |-> program_map_streams(st, bytes.streams)]

\* whether the bytes are a PES with a timestamp and an audio or video stream_id
\* (read_pes_packet with stream_id_type video or audio and a PTS)
IsAvBytes(bytes) ==
  /\ bytes.kind = "pes"
  /\ bytes.stream_id \notin ReservedStreamIds
  /\ bytes.PTS_DTS_flags \in {2, 3}
  /\ stream_id_type(bytes.stream_id) \in {"video", "audio"}

\* the identity of a PES in the history: its PID and its ordinal on that PID
Id(pesPacket) == [pid |-> pesPacket.pid, seq |-> pesPacket.seq]

NoInfo == [program_association |-> FALSE, program_map |-> FALSE, not_parsed |-> FALSE,
           pes |-> None]

\* Buffer.concat(list) throws a TypeError when an element of the list is not a
\* buffer; the bytes start with the payload of the packet that opened the unit
BufferConcat(data) ==
  IF \E i \in 1..Len(data) : data[i] = Undefined
    THEN [threw |-> TRUE, bytes |-> Undefined]
    ELSE [threw |-> FALSE, bytes |-> Head(data)]

\* parsePESPacket (line 545: pes_data = Buffer.concat(packet.data))
parsePESPacket(st, pesPacket) ==
  LET pes_data == BufferConcat(pesPacket.data).bytes IN
  IF BufferConcat(pesPacket.data).threw
    THEN [threw |-> TRUE, st |-> st, info |-> NoInfo]
  ELSE IF pesPacket.pid = PID_PROGRAM_ASSOCIATION_TABLE
    THEN LET r == read_program_association_section(st, pes_data)
         IN [threw |-> r.threw, st |-> r.st,
             info |-> [NoInfo EXCEPT !.program_association = TRUE]]
  ELSE IF Some(pesPacket.pid) = st.videoPID \/ Some(pesPacket.pid) = st.audioPID
    THEN LET r == read_pes_packet(pes_data, pesPacket.pid, pesPacket.seq)
         IN [threw |-> r.threw,
             st |-> IF IsAvBytes(pes_data)
                      THEN [st EXCEPT !.hist.dispatched = @ \cup {Id(pesPacket)}]
                      ELSE st,
             info |-> [NoInfo EXCEPT !.pes = IF r.threw THEN None ELSE Some(r.pes)]]
  ELSE IF pesPacket.pid \in st.programTable
    THEN LET r == read_program_map_section(st, pes_data)
         IN [threw |-> r.threw, st |-> r.st, info |-> [NoInfo EXCEPT !.program_map = TRUE]]
  ELSE [threw |-> FALSE, st |-> st, info |-> [NoInfo EXCEPT !.not_parsed = TRUE]]

\* lines 231-239 of readNext and 523-531 of consumeUnparsedPESPackets (the same
\* code): a PES without PTS is an error, a missing DTS becomes the PTS, the
\* first DTS seen becomes firstDTS
\* setTimestamps that overwrites the DTS of the header
setTimestampsPts(st, pes) ==
  IF pes.PTS = None THEN [threw |-> TRUE, st |-> st, pes |-> pes]
  ELSE LET pes1 == [pes EXCEPT !.DTS = pes.PTS]
       IN [threw |-> FALSE,
           st |-> IF st.firstDTS = None THEN [st EXCEPT !.firstDTS = pes1.DTS] ELSE st,
           pes |-> pes1]

\* setTimestamps that takes the DTS of every PES as the first DTS
setTimestampsLast(st, pes) ==
  IF pes.PTS = None THEN [threw |-> TRUE, st |-> st, pes |-> pes]
  ELSE LET pes1 == IF pes.DTS = None THEN [pes EXCEPT !.DTS = pes.PTS] ELSE pes
       IN [threw |-> FALSE,
           st |-> [st EXCEPT !.firstDTS = pes1.DTS,
                             !.hist.firstStamped = IF @ = None THEN pes1.DTS ELSE @],
           pes |-> pes1]

\* the history keeps the DTS of the first PES that came here with a PTS, and
\* of the first such PES with an audio or video stream_id
setTimestamps(st, pes) ==
  IF pes.PTS = None THEN [threw |-> TRUE, st |-> st, pes |-> pes]
  ELSE LET pes1 == IF pes.DTS = None THEN [pes EXCEPT !.DTS = pes.PTS] ELSE pes
       IN [threw |-> FALSE,
           st |-> [st EXCEPT !.firstDTS = IF @ = None THEN pes1.DTS ELSE @,
                             !.hist.firstStamped = IF @ = None THEN pes1.DTS ELSE @,
                             !.hist.firstAv =
                               IF @ = None /\ pes.stream_id_type \in {"video", "audio"}
                                 THEN pes1.DTS ELSE @],
           pes |-> pes1]

\* a dispatch that takes every PES that is not video as audio
queuePesAny(t, info, doNotReadNext) ==
  IF t.threw THEN Throw(t.st)
  ELSE IF t.pes.stream_id_type = "video"
    THEN queueVideo(t.st, [info EXCEPT !.pes = t.pes], doNotReadNext)
  ELSE queueAudio(t.st, [info EXCEPT !.pes = t.pes], doNotReadNext)

\* lines 241-245 of readNext and 533-537 of consumeUnparsedPESPackets (the same
\* code, but for doNotReadNext): t is the outcome of setTimestamps
queuePes(t, info, doNotReadNext) ==
  IF t.threw THEN Throw(t.st)
  ELSE IF t.pes.stream_id_type = "video"
    THEN queueVideo(t.st, [info EXCEPT !.pes = t.pes], doNotReadNext)
  ELSE IF t.pes.stream_id_type = "audio"
    THEN queueAudio(t.st, [info EXCEPT !.pes = t.pes], doNotReadNext)
  ELSE t.st

\* one turn of the loop of consumeUnparsedPESPackets: p is the outcome of
\* parsePESPacket on the deferred pesPacket
consumeUnparsedOne(p, pesPacket) ==
  IF p.threw THEN Throw(p.st)
  ELSE IF p.info.not_parsed
    THEN [p.st EXCEPT !.hist.dropped =
            IF IsAvBytes(Head(pesPacket.data)) THEN @ \cup {Id(pesPacket)} ELSE @]
  ELSE IF p.info.pes = None THEN p.st
  ELSE queuePes(setTimestamps(p.st, Val(p.info.pes)), p.info, TRUE)

\* the loop of consumeUnparsedPESPackets over a copy of the deferred list
RECURSIVE consumeUnparsedLoop(_, _)
consumeUnparsedLoop(st, list) ==
  IF list = <<>> \/ st.pc = "threw" THEN st
  ELSE consumeUnparsedLoop(consumeUnparsedOne(parsePESPacket(st, Head(list)), Head(list)),
                           Tail(list))

\* a drain that dispatches the deferred list and keeps it
consumeUnparsedPESPacketsKeep(st) ==
  consumeUnparsedLoop(st, st.unparsedPESPackets)

\* a drain that discards the deferred list without dispatching it
consumeUnparsedPESPacketsDiscard(st) ==
  [st EXCEPT !.unparsedPESPackets = <<>>]

consumeUnparsedPESPackets(st) ==
  LET st1 == consumeUnparsedLoop(st, st.unparsedPESPackets)
  IN IF st1.pc = "threw" THEN st1 ELSE [st1 EXCEPT !.unparsedPESPackets = <<>>]

\* ------------------------------------------------------------ transport packets
\* What the reader finds at its position: no more data, or `garbage` bytes other
\* than 0x47 followed (sync) or not by a 0x47 from which the 188 bytes decode as
\* the packet pkt.  aligned says whether the bytes 188, 376, 564 and 752 after
\* that 0x47 are 0x47 too; it matters only while the sync byte is searched.
\* back says what bits.skip_bytes does with a negative count: it moves the
\* reader back, or it throws; it matters only for an adaptation field whose
\* flags announce more bytes than its length.
NoMoreData ==
  [more |-> FALSE, garbage |-> 0, sync |-> FALSE, aligned |-> FALSE, back |-> TRUE,
   pkt |-> None]

\* consumed_bytes of read_adaptation_field when the stuffing is skipped (lines
\* 958-1014): the bytes of the flags and of the fields that the flags announce
consumed_bytes(af) ==
  1 + (IF af.pcr_flag = 1 THEN 6 ELSE 0)
    + (IF af.opcr_flag = 1 THEN 6 ELSE 0)
    + (IF af.splicing_point_flag = 1 THEN 1 ELSE 0)
    + (IF af.transport_private_data_flag = 1
         THEN 1 + af.transport_private_data_length ELSE 0)
    + (IF af.adaptation_field_extension_flag = 1
         THEN 2 + (IF af.ltw_flag = 1 THEN 2 ELSE 0)
                + (IF af.piecewise_rate_flag = 1 THEN 3 ELSE 0)
                + (IF af.seamless_splice_flag = 1 THEN 5 ELSE 0)
         ELSE 0)

\* whether the fields that the flags announce are longer than the field
Overruns(pkt) ==
  /\ pkt.adaptation_field_control \in {2, 3}
  /\ Val(pkt.adaptation_field).adaptation_field_length > 0
  /\ Val(pkt.adaptation_field).opcr_flag = 0
  /\ consumed_bytes(Val(pkt.adaptation_field)) >
       Val(pkt.adaptation_field).adaptation_field_length

ReaderInputs(st) ==
  {NoMoreData}
  \cup {[more |-> TRUE, garbage |-> g, sync |-> FALSE, aligned |-> FALSE, back |-> TRUE,
         pkt |-> None] :
          g \in 1..MaxSkip}
  \cup IF Val(st.tsBits).packets < stream.limit
         THEN UNION {{[more |-> TRUE, garbage |-> g, sync |-> TRUE, aligned |-> a,
                       back |-> b, pkt |-> Some(k)] :
                        g \in 0..MaxSkip,
                        a \in (IF st.isSyncByteDetermined THEN {TRUE} ELSE BOOLEAN),
                        b \in (IF Overruns(k) THEN BOOLEAN ELSE {TRUE})} :
                     k \in stream.packets}
         ELSE {}

\* bits.get_current_byte() at the reader's position
get_current_byte(in) == IF in.garbage = 0 /\ in.sync THEN SYNC_BYTE ELSE 0

\* search_sync_byte: once locked the current byte must be 0x47; before, bytes
\* are skipped up to the first 0x47 (reading past the end of the data throws);
\* the check of the four following packets has no effect (its `continue`
\* continues the for loop), so the first 0x47 locks
\* search_sync_byte that searches again when the locked position is not 0x47
search_sync_byteAgain(st, in) ==
  IF in.sync
    THEN [threw |-> FALSE, st |-> [st EXCEPT !.isSyncByteDetermined = TRUE]]
    ELSE [threw |-> TRUE, st |-> st]

search_sync_byte(st, in) ==
  IF st.isSyncByteDetermined
    THEN [threw |-> get_current_byte(in) # SYNC_BYTE, st |-> st]
    ELSE IF in.sync
      THEN [threw |-> FALSE,
            st |-> [st EXCEPT !.isSyncByteDetermined = TRUE,
                              !.hist.lock = Some([aligned |-> in.aligned])]]
      ELSE [threw |-> TRUE, st |-> st]

\* bits.skip_bytes(n): n bytes are skipped; with a negative count the reader
\* moves back or the call throws
skip_bytes(n, back) ==
  IF n >= 0 \/ back THEN [threw |-> FALSE, skipped |-> n] ELSE [threw |-> TRUE, skipped |-> 0]

\* what read_adaptation_field does after the fields are read: the stuffing is
\* skipped (line 1019); read is the number of bytes read or skipped after the
\* length byte, advance the number of bytes that the reader has moved
adaptation_field_stuffing(af, k) ==
  [threw |-> k.threw,
   adaptation_field_length |-> af.adaptation_field_length,
   read |-> consumed_bytes(af) + (IF k.skipped > 0 THEN k.skipped ELSE 0),
   advance |-> 1 + consumed_bytes(af) + k.skipped]

\* read_adaptation_field that reads the OPCR like the PCR
read_adaptation_fieldOpcr(af, back) ==
  IF af.adaptation_field_length = 0
    THEN [threw |-> FALSE, adaptation_field_length |-> 0, read |-> 0, advance |-> 1]
  ELSE adaptation_field_stuffing(af, skip_bytes(af.adaptation_field_length - consumed_bytes(af),
                                                back))

\* read_adaptation_field: with opcr_flag = 1, line 969 calls read_bits, which is
\* not defined (a ReferenceError), after the flags, the PCR and the 33 bits of
\* the OPCR base (4 bytes and a bit) are read
read_adaptation_field(af, back) ==
  IF af.adaptation_field_length = 0
    THEN [threw |-> FALSE, adaptation_field_length |-> 0, read |-> 0, advance |-> 1]
  ELSE IF af.opcr_flag = 1
    THEN [threw |-> TRUE, adaptation_field_length |-> af.adaptation_field_length,
          read |-> 1 + (IF af.pcr_flag = 1 THEN 6 ELSE 0) + 5,
          advance |-> 1 + 1 + (IF af.pcr_flag = 1 THEN 6 ELSE 0) + 5]
  ELSE adaptation_field_stuffing(af, skip_bytes(af.adaptation_field_length - consumed_bytes(af),
                                                back))

\* the packet without adaptation field
NoAdaptationField ==
  [threw |-> FALSE, adaptation_field_length |-> 0, read |-> 0, advance |-> 0]

\* lines 1046-1058: a is the outcome of read_adaptation_field (NoAdaptationField
\* when adaptation_field_control is 0 or 1); the payload is read for 1 and 3
transport_packet_payload(pkt, a) ==
  LET has_adaptation == pkt.adaptation_field_control \in {2, 3}
      has_payload == pkt.adaptation_field_control \in {1, 3}
      remaining_bytes == (TS_PACKET_SIZE - 4)
                         - (IF has_adaptation THEN a.adaptation_field_length + 1 ELSE 0)
  IN [threw |-> a.threw,
      advance |-> 4 + a.advance + (IF has_payload /\ ~a.threw THEN remaining_bytes ELSE 0),
      adaptation_field |-> IF has_adaptation
                             THEN Some([adaptation_field_length |-> a.adaptation_field_length,
                                        opcr_flag |-> Val(pkt.adaptation_field).opcr_flag,
                                        read |-> a.read, advance |-> a.advance])
                             ELSE None,
      info |-> [pkt EXCEPT !.data = IF has_payload THEN pkt.data ELSE Undefined]]

\* lines 1026-1059 after search_sync_byte: s is the outcome of search_sync_byte
\* in the state st, r the outcome of transport_packet_payload
transport_packet_read(st, s, in, r) ==
  [threw |-> r.threw,
   ts_packet |-> IF r.threw THEN None ELSE Some(r.info),
   st |-> [s.st EXCEPT
             !.tsBits = Some([packets |-> Val(@).packets + (IF r.threw THEN 0 ELSE 1),
                              offset |-> Val(@).offset + r.advance]),
             !.hist.ts = IF r.threw THEN None ELSE Some(r.info),
             !.hist.tsRead = Some([wasLocked |-> st.isSyncByteDetermined,
                                   currentByte |-> get_current_byte(in),
                                   decoded |-> ~r.threw,
                                   start |-> Val(st.tsBits).offset,
                                   advance |-> r.advance,
                                   adaptation_field |-> r.adaptation_field])]]

read_transport_packet(st, in) ==
  LET s == search_sync_byte(st, in) IN
  IF s.threw
    THEN [threw |-> TRUE, ts_packet |-> None,
          st |-> [s.st EXCEPT !.hist.tsRead = Some([wasLocked |-> st.isSyncByteDetermined,
                                                    currentByte |-> get_current_byte(in),
                                                    decoded |-> FALSE,
                                                    start |-> Val(st.tsBits).offset,
                                                    advance |-> 0,
                                                    adaptation_field |-> None])]]
    ELSE transport_packet_read(
           st, s, in,
           transport_packet_payload(
             Val(in.pkt),
             IF Val(in.pkt).adaptation_field_control \in {2, 3}
               THEN read_adaptation_field(Val(Val(in.pkt).adaptation_field), in.back)
               ELSE NoAdaptationField))

\* ------------------------------------------------------------ reassembly
\* DTS (or PTS without DTS) of a PES header, None when it has no timestamp
HeaderDTS(bytes) ==
  IF bytes.kind # "pes" THEN None
  ELSE IF bytes.PTS_DTS_flags = 3 THEN bytes.DTS
  ELSE IF bytes.PTS_DTS_flags = 2 THEN bytes.PTS
  ELSE None

\* a pesPacket returned by getNextPESPacket; seq is its ordinal on its PID
NewPesPacket(st, pid, data, is_last) ==
  [pid |-> pid, data |-> data, is_last |-> is_last, seq |-> st.hist.nCompleted[pid] + 1]

CountPes(st, pid) == [st EXCEPT !.hist.nCompleted[pid] = @ + 1]

Put(f, k, v) == [x \in DOMAIN f \cup {k} |-> IF x = k THEN v ELSE f[x]]
Remove(f, k) == [x \in DOMAIN f \ {k} |-> f[x]]

\* a reassembly that never closes a buffer and keeps a packet that does not
\* start a unit
reassembleResidual(st, ts_packet) ==
  LET pid == ts_packet.pid
      buf == st.bufferingPESData
  IN IF pid \in DOMAIN buf
       THEN [st |-> [st EXCEPT !.bufferingPESData[pid] = Append(@, ts_packet.data)],
             pesPacket |-> None]
       ELSE [st |-> [st EXCEPT !.bufferingPESData = Put(buf, pid, <<ts_packet.data>>)],
             pesPacket |-> None]

\* lines 1073-1108: the packet joins the buffer of its PID
reassemble(st, ts_packet) ==
  LET pid == ts_packet.pid
      buf == st.bufferingPESData
  IN IF pid \in DOMAIN buf
       THEN IF ts_packet.payload_unit_start_indicator = 1
              THEN LET closes == Len(buf[pid]) > 0
                       prev == HeaderDTS(Head(buf[pid]))
                       next == HeaderDTS(ts_packet.data)
                       inOrder == prev = None \/ next = None \/ Val(prev) <= Val(next)
                       st1 == [st EXCEPT !.bufferingPESData[pid] = <<ts_packet.data>>,
                                         !.hist.inputInOrder = @ /\ inOrder]
                   IN IF closes
                        THEN [st |-> CountPes(st1, pid),
                              pesPacket |-> Some(NewPesPacket(st, pid, buf[pid], FALSE))]
                        ELSE [st |-> st1, pesPacket |-> None]
              ELSE [st |-> [st EXCEPT !.bufferingPESData[pid] = Append(@, ts_packet.data)],
                    pesPacket |-> None]
       ELSE IF ts_packet.payload_unit_start_indicator # 1
              THEN [st |-> st, pesPacket |-> None]            \* dropping residual PES packet
              ELSE [st |-> [st EXCEPT !.bufferingPESData = Put(buf, pid, <<ts_packet.data>>)],
                    pesPacket |-> None]

\* a flush that takes the buffer of the highest PID first
flushHighest(st) ==
  IF DOMAIN st.bufferingPESData = {} THEN [st |-> st, pesPacket |-> None]
  ELSE LET pid == CHOOSE p \in DOMAIN st.bufferingPESData :
                    \A q \in DOMAIN st.bufferingPESData : p >= q
       IN [st |-> CountPes([st EXCEPT !.bufferingPESData = Remove(@, pid)], pid),
           pesPacket |-> Some(NewPesPacket(st, pid, st.bufferingPESData[pid], TRUE))]

\* lines 1116-1135: the buffers are flushed in the order of the object's keys,
\* which for integer keys is ascending
RECURSIVE flush(_)
flush(st) ==
  IF DOMAIN st.bufferingPESData = {} THEN [st |-> st, pesPacket |-> None]
  ELSE LET pid == CHOOSE p \in DOMAIN st.bufferingPESData :
                    \A q \in DOMAIN st.bufferingPESData : p <= q
           tmp == st.bufferingPESData[pid]
           st1 == [st EXCEPT !.bufferingPESData = Remove(@, pid)]
       IN IF Len(tmp) > 0
            THEN [st |-> CountPes(st1, pid), pesPacket |-> Some(NewPesPacket(st, pid, tmp, TRUE))]
            ELSE flush(st1)

\* getNextPESPacket, one transport packet at a time: looping says that the
\* while loop goes on because the packet read completed no PES
getNextPESPacket(st, in) ==
  IF ~st.isEOF
    THEN IF ~in.more
           THEN flush([st EXCEPT !.isEOF = TRUE]) @@ [looping |-> FALSE]
           ELSE LET r == read_transport_packet(st, in) IN
                IF r.threw
                  THEN flush([r.st EXCEPT !.isEOF = TRUE]) @@ [looping |-> FALSE]
                  ELSE LET a == reassemble(r.st, Val(r.ts_packet))
                       IN a @@ [looping |-> a.pesPacket = None]
    ELSE flush(st) @@ [looping |-> FALSE]

\* ------------------------------------------------------------ the producer loop
\* line 247: the loop goes on while one of the queues has fewer than 2 entries
readNextQueued(st) ==
  IF st.pc = "threw" THEN st
  ELSE IF Len(st.pendingAudioPesPackets) < 2 \/ Len(st.pendingVideoPesPackets) < 2
    THEN callReadNext([st EXCEPT !.hist.enqueued = TRUE])
  ELSE [st EXCEPT !.pc = "idle", !.hist.returned = TRUE, !.hist.enqueued = TRUE]

\* lines 227-249: a packet that gave no PES makes readNext call itself
readNextPes(st, info) ==
  IF info.pes = None THEN callReadNext(st)                   \* not a video/audio packet
  ELSE readNextQueued(queuePes(setTimestamps(st, Val(info.pes)), info, FALSE))

\* lines 223-226: a packet that was not parsed joins the deferred list
readNextDeferred(st, pesPacket, info) ==
  IF st.pc = "threw" THEN st
  ELSE readNextPes(IF info.not_parsed
                     THEN [st EXCEPT !.unparsedPESPackets = Append(@, pesPacket),
                                     !.hist.deferred = IF IsAvBytes(Head(pesPacket.data))
                                                         THEN @ \cup {Id(pesPacket)} ELSE @]
                     ELSE st,
                   info)

\* lines 218-222: p is the outcome of parsePESPacket; a program map drains the
\* deferred list
readNextParsed(pesPacket, p) ==
  readNextDeferred(IF p.threw THEN Throw(p.st)
                   ELSE IF p.info.program_map THEN consumeUnparsedPESPackets(p.st)
                   ELSE p.st,
                   pesPacket, p.info)

\* lines 214-218: g is the outcome of getNextPESPacket
readNextGot(g) ==
  IF g.looping THEN [g.st EXCEPT !.pc = "getNextPESPacket"]
  ELSE IF g.pesPacket = None                       \* maybe reached EOF
    THEN [g.st EXCEPT !.pc = "idle", !.hist.returned = TRUE,
                      !.hist.got = Some([null |-> TRUE, pid |-> 0, is_last |-> FALSE,
                                         data |-> <<>>])]
  ELSE readNextParsed(Val(g.pesPacket),
                      parsePESPacket([g.st EXCEPT !.hist.got =
                                        Some([null |-> FALSE, pid |-> Val(g.pesPacket).pid,
                                              is_last |-> Val(g.pesPacket).is_last,
                                              data |-> Val(g.pesPacket).data])],
                                     Val(g.pesPacket)))

\* readNext from the call of getNextPESPacket to the next call of readNext (a
\* tail call, pc = "readNext"), to its return (pc = "idle") or to an exception
readNext(st, in) == readNextGot(getNextPESPacket(st, in))

resetState(st) ==
  [st EXCEPT !.unparsedPESPackets = <<>>,
             !.streamingStartTime = None,
             !.bufferingPESData = <<>>,
             !.isEOF = FALSE,
             !.isSyncByteDetermined = FALSE]

startStreaming(st, initialSkipTimeMs) ==
  LET st1 == resetState(st)
      st2 == [st1 EXCEPT !.tsBits = Some([packets |-> 0, offset |-> 0]),
                         !.streamingStartTime = Some(now - initialSkipTimeMs)]
  IN callReadNext([st2 EXCEPT !.hist.started = TRUE,
                            !.hist.sessions = IF @ < MaxSessions THEN @ + 1 ELSE @])

\* ------------------------------------------------------------ sdp.js: strings
\* A string is the sequence of its characters; a number is a natural number,
\* written in decimal when a template formats it.
Digits == <<"0", "1", "2", "3", "4", "5", "6", "7", "8", "9">>
IsDigit(c) == \E i \in 1..10 : Digits[i] = c
DigitValue(c) == (CHOOSE i \in 1..10 : Digits[i] = c) - 1
\* \s of a regular expression, and the characters that . does not match
IsSpace(c) == c \in {" ", "\t", "\r", "\n"}
IsLineTerminator(c) == c \in {"\r", "\n"}

\* String(n) of a template literal `${n}`
RECURSIVE NumberToString(_)
NumberToString(n) ==
  IF n < 10 THEN <<Digits[n + 1]>>
  ELSE Append(NumberToString(n \div 10), Digits[(n % 10) + 1])

\* the value of a run of decimal digits
RECURSIVE DigitsValue(_)
DigitsValue(s) ==
  IF s = <<>> THEN 0
  ELSE 10 * DigitsValue(SubSeq(s, 1, Len(s) - 1)) + DigitValue(s[Len(s)])

\* the length of the longest prefix of s from index i whose characters satisfy Is
RunOfDigits(s, i) ==
  IF \E j \in i..Len(s) : ~IsDigit(s[j])
    THEN (CHOOSE j \in i..Len(s) : ~IsDigit(s[j]) /\ \A k \in i..(j - 1) : IsDigit(s[k])) - i
    ELSE Len(s) - i + 1
RunOfSpaces(s, i) ==
  IF \E j \in i..Len(s) : ~IsSpace(s[j])
    THEN (CHOOSE j \in i..Len(s) : ~IsSpace(s[j]) /\ \A k \in i..(j - 1) : IsSpace(s[k])) - i
    ELSE Len(s) - i + 1

\* parseInt(s): leading white space is skipped, then the decimal digits are
\* read; NaN (None) when no digit is there. Signs do not occur in the inputs.
parseInt(s) ==
  IF RunOfDigits(s, RunOfSpaces(s, 1) + 1) = 0 THEN None
  ELSE Some(DigitsValue(SubSeq(s, RunOfSpaces(s, 1) + 1,
                               RunOfSpaces(s, 1) + RunOfDigits(s, RunOfSpaces(s, 1) + 1))))

\* toLowerCase, on the letters A-Z
UpperCase ==
  <<"A", "B", "C", "D", "E", "F", "G", "H", "I", "J", "K", "L", "M",
    "N", "O", "P", "Q", "R", "S", "T", "U", "V", "W", "X", "Y", "Z">>
LowerCase ==
  <<"a", "b", "c", "d", "e", "f", "g", "h", "i", "j", "k", "l", "m",
    "n", "o", "p", "q", "r", "s", "t", "u", "v", "w", "x", "y", "z">>
toLowerCaseChar(c) ==
  IF \E i \in 1..26 : UpperCase[i] = c
    THEN LowerCase[CHOOSE i \in 1..26 : UpperCase[i] = c]
    ELSE c
toLowerCase(s) == [i \in 1..Len(s) |-> toLowerCaseChar(s[i])]

\* the index of the first character of s equal to c, 0 when there is none
IndexOf(s, c) ==
  IF \E i \in 1..Len(s) : s[i] = c
    THEN CHOOSE i \in 1..Len(s) : s[i] = c /\ \A k \in 1..(i - 1) : s[k] # c
    ELSE 0

\* /^(.*?)c(.*)$/.exec(s): the text before and after the first c, when s holds
\* a c and no line terminator
ExecKeyValue(s, c) ==
  IF IndexOf(s, c) = 0 \/ \E i \in 1..Len(s) : IsLineTerminator(s[i]) THEN None
  ELSE Some([key |-> SubSeq(s, 1, IndexOf(s, c) - 1),
             value |-> SubSeq(s, IndexOf(s, c) + 1, Len(s))])

\* str.split(/\r?\n/)
RECURSIVE SplitLines(_)
SplitLines(s) ==
  IF IndexOf(s, "\n") = 0 THEN <<s>>
  ELSE <<SubSeq(s, 1, IF IndexOf(s, "\n") > 1 /\ s[IndexOf(s, "\n") - 1] = "\r"
                        THEN IndexOf(s, "\n") - 2 ELSE IndexOf(s, "\n") - 1)>>
       \o SplitLines(SubSeq(s, IndexOf(s, "\n") + 1, Len(s)))

\* the index of the first white space character of s, 0 when there is none
IndexOfSpace(s) ==
  IF \E i \in 1..Len(s) : IsSpace(s[i])
    THEN CHOOSE i \in 1..Len(s) : IsSpace(s[i]) /\ \A k \in 1..(i - 1) : ~IsSpace(s[k])
    ELSE 0

\* value.split(/\s+/)
RECURSIVE SplitSpaces(_)
SplitSpaces(s) ==
  IF IndexOfSpace(s) = 0 THEN <<s>>
  ELSE <<SubSeq(s, 1, IndexOfSpace(s) - 1)>>
       \o SplitSpaces(SubSeq(s, IndexOfSpace(s) + RunOfSpaces(s, IndexOfSpace(s)), Len(s)))

\* s.split(/;\s*/)
RECURSIVE SplitPairs(_)
SplitPairs(s) ==
  IF IndexOf(s, ";") = 0 THEN <<s>>
  ELSE <<SubSeq(s, 1, IndexOf(s, ";") - 1)>>
       \o SplitPairs(SubSeq(s, IndexOf(s, ";") + 1 + RunOfSpaces(s, IndexOf(s, ";") + 1), Len(s)))

\* value.split(':')
RECURSIVE SplitColon(_)
SplitColon(s) ==
  IF IndexOf(s, ":") = 0 THEN <<s>>
  ELSE <<SubSeq(s, 1, IndexOf(s, ":") - 1)>> \o SplitColon(SubSeq(s, IndexOf(s, ":") + 1, Len(s)))

\* params[i] of an array: undefined (None) past its end
At(params, i) == IF i <= Len(params) THEN Some(params[i]) ELSE None

\* ------------------------------------------------------------ sdp.js: createSDP
\* a list that asks for the video options whether hasVideo or not
mandatoryOptsVideoAlways(opts) ==
  <<"username", "sessionID", "sessionVersion", "addressType", "unicastAddress">>
  \o (IF opts.hasAudio THEN <<"audioPayloadType", "audioEncodingName", "audioClockRate">>
      ELSE <<>>)
  \o <<"videoPayloadType", "videoEncodingName", "videoClockRate">>

\* lines 37-57: the options that must not be null or undefined
mandatoryOpts(opts) ==
  <<"username", "sessionID", "sessionVersion", "addressType", "unicastAddress">>
  \o (IF opts.hasAudio THEN <<"audioPayloadType", "audioEncodingName", "audioClockRate">>
      ELSE <<>>)
  \o (IF opts.hasVideo THEN <<"videoPayloadType", "videoEncodingName", "videoClockRate">>
      ELSE <<>>)

\* lines 59-63: the first of them that is missing, None when none is
FirstMissing(opts) ==
  IF \E i \in 1..Len(mandatoryOpts(opts)) : opts[mandatoryOpts(opts)[i]] = None
    THEN Some(mandatoryOpts(opts)[CHOOSE i \in 1..Len(mandatoryOpts(opts)) :
                /\ opts[mandatoryOpts(opts)[i]] = None
                /\ \A k \in 1..(i - 1) : opts[mandatoryOpts(opts)[k]] # None])
    ELSE None

\* lines 77-87: the session part of the template
sessionBody(opts) ==
  <<"v", "=", "0", "\n">>
  \o <<"o", "=">> \o Val(opts.username) \o <<" ">> \o Val(opts.sessionID) \o <<" ">>
  \o Val(opts.sessionVersion) \o <<" ", "I", "N", " ">> \o Val(opts.addressType) \o <<" ">>
  \o Val(opts.unicastAddress) \o <<"\n">>
  \o <<"s", "=", " ", "\n">>
  \o <<"c", "=", "I", "N",
      " ">> \o Val(opts.addressType) \o <<" ">> \o Val(opts.unicastAddress) \o <<"\n">>
  \o <<"t", "=", "0", " ", "0", "\n">>
  \o <<"a", "=", "s", "d", "p", "l", "a", "n", "g", ":", "e", "n", "\n">>
  \o <<"a", "=", "r", "a", "n", "g", "e", ":", "n", "p", "t", "=", "0", ".", "0", "-">>
  \o (IF opts.durationSeconds # None THEN NumberToString(Val(opts.durationSeconds)) ELSE <<>>)
  \o <<"\n">>
  \o <<"a", "=", "c", "o", "n", "t", "r", "o", "l", ":", "*", "\n">>

\* Buffer.toString('hex'): two hexadecimal digits for each byte
HexDigits == <<"0", "1", "2", "3", "4", "5", "6", "7", "8", "9", "a", "b", "c", "d", "e", "f">>
RECURSIVE toStringHex(_)
toStringHex(bytes) ==
  IF bytes = <<>> THEN <<>>
  ELSE <<HexDigits[(Head(bytes) \div 16) + 1], HexDigits[(Head(bytes) % 16) + 1]>>
       \o toStringHex(Tail(bytes))

\* lines 91-106: the hexadecimal AudioSpecificConfig, null when not available
\* (the options of the inputs carry no audioObjectType, so that the branch
\* that calls ./aac is not taken)
configspec(opts) ==
  IF opts.audioSpecificConfig # None THEN Some(toStringHex(Val(opts.audioSpecificConfig)))
  ELSE None

\* lines 108-111
audioRtpmap(opts) ==
  NumberToString(Val(opts.audioPayloadType)) \o <<" ">> \o Val(opts.audioEncodingName) \o <<"/">>
  \o NumberToString(Val(opts.audioClockRate))
  \o (IF opts.audioChannels # None THEN <<"/">> \o NumberToString(Val(opts.audioChannels)) ELSE <<>>)

\* lines 113-117
audioFmtp(opts) ==
  NumberToString(Val(opts.audioPayloadType))
  \o <<" ", "p", "r", "o", "f", "i", "l", "e", "-", "l", "e", "v", "e", "l", "-", "i", "d",
      "=">> \o NumberToString(1)
  \o <<";", "m", "o", "d", "e", "=", "A", "A", "C", "-", "h", "b", "r", ";", "s", "i", "z", "e",
      "L", "e", "n", "g", "t", "h", "=", "1", "3", ";", "i", "n", "d", "e", "x", "L", "e", "n",
      "g", "t", "h", "=", "3", ";", "i", "n", "d", "e", "x", "D", "e", "l", "t", "a", "L", "e",
      "n", "g", "t", "h", "=", "3">>
  \o (IF configspec(opts) # None THEN <<";", "c", "o", "n", "f", "i", "g",
      "=">> \o Val(configspec(opts)) ELSE <<>>)

\* lines 120-126
audioBody(opts) ==
  <<"m", "=", "a", "u", "d", "i", "o", " ", "0", " ", "R", "T", "P", "/", "A", "V", "P",
      " ">> \o NumberToString(Val(opts.audioPayloadType)) \o <<"\n">>
  \o <<"a", "=", "r", "t", "p", "m", "a", "p", ":">> \o audioRtpmap(opts) \o <<"\n">>
  \o <<"a", "=", "f", "m", "t", "p", ":">> \o audioFmtp(opts) \o <<"\n">>
  \o <<"a", "=", "c", "o", "n", "t", "r", "o", "l", ":", "t", "r", "a", "c", "k", "I", "D", "=",
      "1", "\n">>

\* a fmtp that leaves the parameter sets out
videoFmtpBare(opts) ==
  NumberToString(Val(opts.videoPayloadType)) \o <<" ", "p", "a", "c", "k", "e", "t", "i", "z", "a", "t",
      "i", "o", "n", "-", "m", "o", "d", "e", "=", "1">>

\* lines 129-135
videoFmtp(opts) ==
  NumberToString(Val(opts.videoPayloadType)) \o <<" ", "p", "a", "c", "k", "e", "t", "i", "z", "a", "t",
      "i", "o", "n", "-", "m", "o", "d", "e", "=", "1">>
  \o (IF opts.videoProfileLevelId # None
        THEN <<";", "p", "r", "o", "f", "i", "l", "e", "-", "l", "e", "v", "e", "l", "-", "i",
            "d", "=">> \o Val(opts.videoProfileLevelId) ELSE <<>>)
  \o (IF opts.videoSpropParameterSets # None
        THEN <<";", "s", "p", "r", "o", "p", "-", "p", "a", "r", "a", "m", "e", "t", "e", "r",
            "-", "s", "e", "t", "s", "=">> \o Val(opts.videoSpropParameterSets) ELSE <<>>)

\* lines 136-156
videoBody(opts) ==
  <<"m", "=", "v", "i", "d", "e", "o", " ", "0", " ", "R", "T", "P", "/", "A", "V", "P",
      " ">> \o NumberToString(Val(opts.videoPayloadType)) \o <<"\n">>
  \o <<"a", "=", "r", "t", "p", "m", "a", "p",
      ":">> \o NumberToString(Val(opts.videoPayloadType)) \o <<" ">>
  \o Val(opts.videoEncodingName) \o <<"/">> \o NumberToString(Val(opts.videoClockRate)) \o <<"\n">>
  \o <<"a", "=", "f", "m", "t", "p", ":">> \o videoFmtp(opts) \o <<"\n">>
  \o (IF opts.videoHeight # None /\ opts.videoWidth # None
        THEN <<"a", "=", "c", "l", "i", "p", "r", "e", "c", "t", ":", "0", ",", "0",
            ",">> \o NumberToString(Val(opts.videoHeight)) \o <<",">>
             \o NumberToString(Val(opts.videoWidth)) \o <<"\n">>
             \o <<"a", "=", "f", "r", "a", "m", "e", "s", "i", "z", "e",
                 ":">> \o NumberToString(Val(opts.videoPayloadType)) \o <<" ">>
             \o NumberToString(Val(opts.videoWidth)) \o <<"-">> \o NumberToString(Val(opts.videoHeight)) \o <<"\n">>
        ELSE <<>>)
  \o (IF opts.videoFrameRate # None
        THEN <<"a", "=", "f", "r", "a", "m", "e", "r", "a", "t", "e",
            ":">> \o Val(opts.videoFrameRate) \o <<"\n">> ELSE <<>>)
  \o <<"a", "=", "c", "o", "n", "t", "r", "o", "l", ":", "t", "r", "a", "c", "k", "I", "D", "=",
      "2", "\n">>

\* a replace that leaves the line feeds as they are
replaceNothing(s) == s

\* line 157: sdpBody.replace(/\n/g, "\r\n")
RECURSIVE replaceLF(_)
replaceLF(s) ==
  IF IndexOf(s, "\n") = 0 THEN s
  ELSE SubSeq(s, 1, IndexOf(s, "\n") - 1) \o <<"\r", "\n">>
       \o replaceLF(SubSeq(s, IndexOf(s, "\n") + 1, Len(s)))

\* a createSDP that puts the video section in front of the audio section
createSDPVideoFirst(opts) ==
  IF FirstMissing(opts) # None
    THEN [threw |-> TRUE, prop |-> Val(FirstMissing(opts)), sdpBody |-> <<>>]
    ELSE [threw |-> FALSE, prop |-> "",
          sdpBody |-> replaceLF(sessionBody(opts)
                                \o (IF opts.hasVideo THEN videoBody(opts) ELSE <<>>)
                                \o (IF opts.hasAudio THEN audioBody(opts) ELSE <<>>))]

\* createSDP(opts): the document, or the error naming the missing property
createSDP(opts) ==
  IF FirstMissing(opts) # None
    THEN [threw |-> TRUE, prop |-> Val(FirstMissing(opts)), sdpBody |-> <<>>]
    ELSE [threw |-> FALSE, prop |-> "",
          sdpBody |-> replaceLF(sessionBody(opts)
                                \o (IF opts.hasAudio THEN audioBody(opts) ELSE <<>>)
                                \o (IF opts.hasVideo THEN videoBody(opts) ELSE <<>>))]

\* ------------------------------------------------------------ sdp.js: parse
\* a field that was not assigned is undefined (None); media is the empty
\* sequence until the first m= line. The session and the media sections carry
\* the fields that an a= line may set on its target.
NewSession ==
  [version |-> None, origin |-> None, sessionName |-> None, connectionData |-> None,
   timing |-> None, bandwidth |-> None, attributes |-> None, clockRate |-> None,
   audioChannels |-> None, fmtpParams |-> None, media |-> <<>>]

\* the value true of a flag attribute
FlagTrue == [flag |-> TRUE]

\* /\d+\s+.*?\/(\d+)(?:\/(\d+))?/.exec(attrValue): the match starts at the
\* first run of digits that white space follows; found is the index of the
\* first "/" after that white space that a digit follows, 0 when there is none
RtpmapStart(s) ==
  IF \E i \in 1..(Len(s) - 1) : IsDigit(s[i]) /\ IsSpace(s[i + 1])
    THEN CHOOSE i \in 1..(Len(s) - 1) :
           /\ IsDigit(s[i]) /\ IsSpace(s[i + 1])
           /\ \A k \in 1..(i - 1) : ~(IsDigit(s[k]) /\ IsSpace(s[k + 1]))
    ELSE 0

RtpmapSlash(s, from) ==
  IF \E j \in from..(Len(s) - 1) : s[j] = "/" /\ IsDigit(s[j + 1])
    THEN CHOOSE j \in from..(Len(s) - 1) :
           /\ s[j] = "/" /\ IsDigit(s[j + 1])
           /\ \A k \in from..(j - 1) : ~(s[k] = "/" /\ IsDigit(s[k + 1]))
    ELSE 0

\* the two groups, from the index j of the "/" and the end e of the first group
RtpmapGroups(s, j, e) ==
  [clockRate |-> SubSeq(s, j + 1, e),
   audioChannels |-> IF e + 2 <= Len(s) /\ s[e + 1] = "/" /\ IsDigit(s[e + 2])
                       THEN Some(SubSeq(s, e + 2, e + 1 + RunOfDigits(s, e + 2)))
                       ELSE None]

ExecRtpmapFrom(s, j) ==
  IF j = 0 THEN None ELSE Some(RtpmapGroups(s, j, j + RunOfDigits(s, j + 1)))

ExecRtpmap(s) ==
  IF RtpmapStart(s) = 0 THEN None
  ELSE ExecRtpmapFrom(s, RtpmapSlash(s, RtpmapStart(s) + 1 + RunOfSpaces(s, RtpmapStart(s) + 1)))

\* /^\d+\s+(.*)$/.exec(attrValue): the text after the digits and the white space
ExecFmtp(s) ==
  IF RunOfDigits(s, 1) = 0 \/ RunOfSpaces(s, RunOfDigits(s, 1) + 1) = 0 THEN None
  ELSE Some(SubSeq(s, RunOfDigits(s, 1) + RunOfSpaces(s, RunOfDigits(s, 1) + 1) + 1, Len(s)))

\* lines 309-313: the pairs key=value, keys in lower case; a later pair wins
fmtpPair(params, m) ==
  IF m = None THEN params ELSE Put(params, toLowerCase(Val(m).key), Val(m).value)

RECURSIVE fmtpPairs(_, _)
fmtpPairs(params, pairs) ==
  IF pairs = <<>> THEN params
  ELSE fmtpPairs(fmtpPair(params, ExecKeyValue(Head(pairs), "=")), Tail(pairs))

\* lines 299-305: a=rtpmap:... sets clockRate and audioChannels
setRtpmap(target, m) ==
  IF m = None THEN target
  ELSE [target EXCEPT !.clockRate = Some(parseInt(Val(m).clockRate)),
                      !.audioChannels = IF Val(m).audioChannels # None
                                          THEN Some(parseInt(Val(Val(m).audioChannels)))
                                          ELSE @]

\* lines 306-315: a=fmtp:... sets fmtpParams
setFmtp(target, m) ==
  IF m = None THEN target
  ELSE [target EXCEPT !.fmtpParams = Some(fmtpPairs(<<>>, SplitPairs(Val(m))))]

\* lines 295-315: a=<attribute>:<value>
setAttribute(target, attrKey, attrValue) ==
  IF attrKey = <<"r", "t", "p", "m", "a", "p">> THEN setRtpmap(target, ExecRtpmap(attrValue))
  ELSE IF attrKey = <<"f", "m", "t", "p">> THEN setFmtp(target, ExecFmtp(attrValue))
  ELSE target

\* lines 292-294: target.attributes = {} when it is not there yet
withAttributes(target) ==
  IF target.attributes = None THEN [target EXCEPT !.attributes = Some(<<>>)] ELSE target

\* lines 290-319: an a= line on its target, the session or the current media
attributeLine(target, value) ==
  LET t == withAttributes(target)
      m == ExecKeyValue(value, ":")
  IN IF m # None
       THEN setAttribute([t EXCEPT !.attributes = Some(Put(Val(@), Val(m).key, Val(m).value))],
                         Val(m).key, Val(m).value)
       ELSE [t EXCEPT !.attributes = Some(Put(Val(@), value, FlagTrue))]

\* lines 339-349: a b= line on its target
bandwidthLine(target, params) ==
  [target EXCEPT !.bandwidth = Some([bwtype |-> At(params, 1), bandwidth |-> At(params, 2)])]

\* lines 291, 344: the target is the current media, the last section of
\* session.media, or the session when no m= line was read
\* an a= line that always goes to the session
attributeOnSession(session, value) == attributeLine(session, value)

attributeOnTarget(session, value) ==
  IF session.media = <<>> THEN attributeLine(session, value)
  ELSE [session EXCEPT !.media[Len(session.media)] = attributeLine(@, value)]

bandwidthOnTarget(session, params) ==
  IF session.media = <<>> THEN bandwidthLine(session, params)
  ELSE [session EXCEPT !.media[Len(session.media)] = bandwidthLine(@, params)]

\* lines 320-338: an m= line opens a media section
mediaFmt(proto, fmt) ==
  IF proto = Some(<<"R", "T", "P", "/", "A", "V", "P">>)
     \/ proto = Some(<<"R", "T", "P", "/", "S", "A", "V", "P">>)
    THEN [number |-> TRUE, value |-> IF fmt = None THEN None ELSE parseInt(Val(fmt))]
    ELSE [number |-> FALSE, value |-> fmt]

mediaLine(session, params) ==
  [session EXCEPT !.media =
     Append(@, [media |-> At(params, 1), port |-> At(params, 2), proto |-> At(params, 3),
                fmt |-> mediaFmt(At(params, 3), At(params, 4)),
                others |-> At(params, 5),
                bandwidth |-> None, attributes |-> None, clockRate |-> None,
                audioChannels |-> None, fmtpParams |-> None])]

originLine(session, params) ==
  [session EXCEPT !.origin =
     Some([username |-> At(params, 1), sessId |-> At(params, 2), sessVersion |-> At(params, 3),
           nettype |-> At(params, 4), addrtype |-> At(params, 5),
           unicastAddress |-> At(params, 6)])]

connectionLine(session, params) ==
  [session EXCEPT !.connectionData =
     Some([nettype |-> At(params, 1), addrtype |-> At(params, 2),
           connectionAddress |-> At(params, 3)])]

timingLine(session, params) ==
  [session EXCEPT !.timing = Some([startTime |-> At(params, 1), stopTime |-> At(params, 2)])]

\* lines 248-352: switch (key)
parseKey(session, key, value) ==
  IF key = <<"v">> THEN [session EXCEPT !.version = Some(value)]
  ELSE IF key = <<"o">> THEN originLine(session, SplitSpaces(value))
  ELSE IF key = <<"s">> THEN [session EXCEPT !.sessionName = Some(value)]
  ELSE IF key = <<"c">> THEN connectionLine(session, SplitSpaces(value))
  ELSE IF key = <<"t">> THEN timingLine(session, SplitSpaces(value))
  ELSE IF key = <<"a">> THEN attributeOnTarget(session, value)
  ELSE IF key = <<"m">> THEN mediaLine(session, SplitSpaces(value))
  ELSE IF key = <<"b">> THEN bandwidthOnTarget(session, SplitColon(value))
  ELSE session                                   \* Unknown (not implemented) SDP

\* lines 236-243: a line that is not empty is key=value, or parse throws
parseLine(r, line, m) ==
  IF m = None
    THEN [threw |-> TRUE, line |-> line, session |-> NewSession]
    ELSE [r EXCEPT !.session = parseKey(@, Val(m).key, Val(m).value)]

RECURSIVE parseLines(_, _)
parseLines(r, lines) ==
  IF lines = <<>> \/ r.threw THEN r
  ELSE IF Head(lines) = <<>> THEN parseLines(r, Tail(lines))
  ELSE parseLines(parseLine(r, Head(lines), ExecKeyValue(Head(lines), "=")), Tail(lines))

\* parse(str): the session object, or the error carrying the invalid line
parse(str) ==
  parseLines([threw |-> FALSE, line |-> <<>>, session |-> NewSession], SplitLines(str))

\* ------------------------------------------------------------ sdp.js: inputs
\* the options of createSDP; an option that is null or undefined is None
DefaultOpts ==
  [username |-> Some(<<"-">>), sessionID |-> Some(<<"0">>), sessionVersion |-> Some(<<"0">>),
   addressType |-> Some(<<"I", "P", "4">>), unicastAddress |-> Some(<<"1", ".", "1">>),
   durationSeconds |-> None,
   hasAudio |-> FALSE, audioPayloadType |-> Some(97),
   audioEncodingName |-> Some(<<"m", "p", "e", "g", "4", "-", "g", "e", "n", "e", "r", "i",
       "c">>), audioClockRate |-> Some(44100),
   audioChannels |-> None, audioSpecificConfig |-> None,
   hasVideo |-> FALSE, videoPayloadType |-> Some(96),
   videoEncodingName |-> Some(<<"H", "2", "6", "4">>), videoClockRate |-> Some(90000),
   videoProfileLevelId |-> None, videoSpropParameterSets |-> None,
   videoHeight |-> None, videoWidth |-> None, videoFrameRate |-> None]

OneOf(v) == {None, v}

\* options with any of the mandatory ones missing
PresenceOpts ==
  { [DefaultOpts EXCEPT !.username = u, !.sessionID = si, !.sessionVersion = sv,
                        !.addressType = at, !.unicastAddress = ua,
                        !.hasAudio = ha, !.audioPayloadType = apt,
                        !.audioEncodingName = aen, !.audioClockRate = acr,
                        !.hasVideo = hv, !.videoPayloadType = vpt,
                        !.videoEncodingName = ven, !.videoClockRate = vcr] :
      u \in OneOf(DefaultOpts.username), si \in OneOf(DefaultOpts.sessionID),
      sv \in OneOf(DefaultOpts.sessionVersion), at \in OneOf(DefaultOpts.addressType),
      ua \in OneOf(DefaultOpts.unicastAddress),
      ha \in BOOLEAN, apt \in OneOf(DefaultOpts.audioPayloadType),
      aen \in OneOf(DefaultOpts.audioEncodingName), acr \in OneOf(DefaultOpts.audioClockRate),
      hv \in BOOLEAN, vpt \in OneOf(DefaultOpts.videoPayloadType),
      ven \in OneOf(DefaultOpts.videoEncodingName), vcr \in OneOf(DefaultOpts.videoClockRate) }

\* the audio options: no audio, the mandatory ones, or channels and config too
AudioVariants ==
  { [hasAudio |-> FALSE, audioChannels |-> None, audioSpecificConfig |-> None],
    [hasAudio |-> TRUE, audioChannels |-> None, audioSpecificConfig |-> None],
    [hasAudio |-> TRUE, audioChannels |-> Some(2), audioSpecificConfig |-> Some(<<18, 16>>)] }

\* options of a video stream, with values that hold white space, line feeds,
\* ";" and "/" among them
ValueOpts ==
  { [DefaultOpts EXCEPT !.hasVideo = TRUE,
                        !.username = Some(u), !.sessionID = Some(si),
                        !.durationSeconds = d,
                        !.hasAudio = a.hasAudio, !.audioChannels = a.audioChannels,
                        !.audioSpecificConfig = a.audioSpecificConfig,
                        !.videoEncodingName = Some(ven),
                        !.videoProfileLevelId = pl, !.videoSpropParameterSets = sp,
                        !.videoHeight = size, !.videoWidth = size,
                        !.videoFrameRate = fr] :
      u \in {<<"-">>, <<"a", " ", "b">>}, si \in {<<"0">>, <<>>}, d \in {None, Some(5)},
      a \in AudioVariants,
      ven \in {<<"H", "2", "6", "4">>, <<"H", "/", "1">>},
      pl \in {None, Some(<<"4", "2", "A", "0", "1", "E">>), Some(<<"4", ";", "p", "a", "c", "k",
          "e", "t", "i", "z", "a", "t", "i", "o", "n", "-", "m", "o", "d", "e", "=", "2">>)},
      sp \in {None, Some(<<"Z", "0", ",", "a", "M", "=">>), Some(<<"Z", ";", "a">>)},
      size \in {None, Some(2)},
      fr \in {None, Some(<<"3", "0">>), Some(<<"3", "\n", "m", "=", "v", "i", "d", "e", "o", " ",
          "0", " ", "R", "T", "P", "/", "A", "V", "P", " ", "7">>)} }

\* options with and without audio, video, height, width and frame rate
SectionOpts ==
  { [DefaultOpts EXCEPT !.hasAudio = ha, !.hasVideo = hv, !.videoHeight = h,
                        !.videoWidth = w, !.videoFrameRate = fr] :
      ha \in BOOLEAN, hv \in BOOLEAN, h \in {None, Some(2)}, w \in {None, Some(3)},
      fr \in {None, Some(<<"3", "0">>)} }

\* the strings given to parse: every string of these characters up to MaxStrLen
StrChars == {"a", "=", "\r", "\n"}
SdpStrings == UNION {[1..n -> StrChars] : n \in 0..MaxStrLen}

\* the documents given to parse: up to MaxLines lines, each an m= line, an
\* a= line with a value or a flag, or a b= line, with a line feed between them
SdpLines ==
  { <<"m", "=", "v">>, <<"m", "=", "u">>,
    <<"a", "=", "x", ":", "1">>, <<"a", "=", "x", ":", "2">>, <<"a", "=", "f">>,
    <<"b", "=", "A", ":", "1">>, <<"b", "=", "B", ":", "2">> }

RECURSIVE JoinLines(_)
JoinLines(lines) ==
  IF Len(lines) = 1 THEN lines[1]
  ELSE lines[1] \o <<"\n">> \o JoinLines(Tail(lines))

SdpDocuments == {JoinLines(l) : l \in UNION {[1..n -> SdpLines] : n \in 1..MaxLines}}

NoSdp == [opts |-> None, str |-> None, created |-> None, parsed |-> None]

\* ------------------------------------------------------------ the state machine
ApiDts == {0, 2700}

InitHist ==
  [ uncaught |-> FALSE,
    nCompleted |-> [p \in PIDs |-> 0],
    out |-> [k \in {"video", "audio"} |-> <<>>],
    dispatched |-> {},
    deferred |-> {},
    nEnd |-> 0,
    tsRead |-> None,
    lock |-> None,
    got |-> None,
    started |-> FALSE,
    enqueued |-> FALSE,
    failed |-> FALSE,
    firstStamped |-> None,
    firstAv |-> None,
    ts |-> None,
    sessions |-> 0,
    inputInOrder |-> TRUE,
    dropped |-> {},
    returned |-> FALSE,
    api |-> None ]

InitDemuxer(packets, limit) ==
  /\ stream = [packets |-> packets, limit |-> limit]
  /\ tsBuf = "null"
  /\ tsBits = None
  /\ isSyncByteDetermined = FALSE
  /\ programTable = {}
  /\ unparsedPESPackets = <<>>
  /\ audioPID = None
  /\ videoPID = None
  /\ pendingVideoPesPackets = <<>>
  /\ pendingAudioPesPackets = <<>>
  /\ streamingStartTime = None
  /\ firstDTS = None
  /\ bufferingPESData = <<>>
  /\ isEOF = FALSE
  /\ timers = <<>>
  /\ now = 0
  /\ pc = "idle"
  /\ emitted = <<>>
  /\ hist = InitHist

InitWith(packets, limit) ==
  /\ sdp = NoSdp
  /\ InitDemuxer(packets, limit)

\* open(file)
Open ==
  /\ pc = "idle"
  /\ tsBuf = "null"
  /\ Commit([State EXCEPT !.tsBuf = "file"])
  /\ UNCHANGED <<now, stream, sdp>>

\* close()
Close ==
  /\ pc = "idle"
  /\ tsBuf = "file"
  /\ Commit([State EXCEPT !.tsBuf = "null"])
  /\ UNCHANGED <<now, stream, sdp>>

\* startStreaming(initialSkipTimeMs), up to the first call of getNextPESPacket
StartStreaming ==
  /\ pc = "idle"
  /\ tsBuf = "file"
  /\ streamingStartTime = None
  /\ \E initialSkipTimeMs \in InitialSkips :
       Commit(Finish(startStreaming(State, initialSkipTimeMs)))
  /\ UNCHANGED <<now, stream, sdp>>

\* startStreaming called again, in a session that was started before
StartStreamingAgain ==
  /\ pc = "idle"
  /\ tsBuf = "file"
  /\ streamingStartTime # None
  /\ hist.sessions < MaxSessions
  /\ \E initialSkipTimeMs \in InitialSkips :
       Commit(Finish(startStreaming(State, initialSkipTimeMs)))
  /\ UNCHANGED <<now, stream, sdp>>

\* the running handler goes on: one transport packet is read, or a buffer flushed
ReadNext ==
  /\ pc \in {"readNext", "getNextPESPacket"}
  /\ \E in \in (IF isEOF THEN {NoMoreData}
                ELSE ReaderInputs(State)) :
       Commit(Finish(readNext(State, in)))
  /\ UNCHANGED <<now, stream, sdp>>

RemoveAt(s, i) == [j \in 1..(Len(s) - 1) |-> IF j < i THEN s[j] ELSE s[j + 1]]

\* a callback scheduled by setImmediate or setTimeout runs, not before its time
FireTimer ==
  /\ pc = "idle"
  /\ \E i \in 1..Len(timers) :
       /\ timers[i].at <= now
       /\ LET st == [State EXCEPT !.timers = RemoveAt(@, i)]
              cb == timers[i]
          IN Commit(Finish(IF cb.callback = "consumeVideo"
                             THEN consumeVideo(st, cb.doNotReadNext)
                             ELSE consumeAudio(st, cb.doNotReadNext)))
  /\ UNCHANGED <<now, stream, sdp>>

\* time passes between handlers, while a callback is scheduled
Tick ==
  /\ pc = "idle"
  /\ timers # <<>>
  /\ \E t \in TimePoints :
       /\ t > now
       /\ \A u \in TimePoints : u > now => t <= u
       /\ now' = t
  /\ Commit(State)
  /\ UNCHANGED <<stream, sdp>>

\* getTimeUntilDTS(dts) called by the application; an exception goes to the caller
GetTimeUntilDTS ==
  /\ pc = "idle"
  /\ \E dts \in ApiDts :
       Commit([State EXCEPT !.hist.api = Some([dts |-> dts] @@ getTimeUntilDTS(State, dts))])
  /\ UNCHANGED <<now, stream, sdp>>

\* createSDP(opts) is called with the options of the input
CreateSDP ==
  /\ sdp.opts # None
  /\ sdp.created = None
  /\ sdp' = [sdp EXCEPT !.created = Some(createSDP(Val(sdp.opts)))]
  /\ UNCHANGED demuxer

\* parse(str) is called with the document that createSDP returned
ParseCreated ==
  /\ sdp.created # None
  /\ ~Val(sdp.created).threw
  /\ sdp.parsed = None
  /\ sdp' = [sdp EXCEPT !.parsed = Some(parse(Val(sdp.created).sdpBody))]
  /\ UNCHANGED demuxer

\* parse(str) is called with the string of the input
Parse ==
  /\ sdp.str # None
  /\ sdp.parsed = None
  /\ sdp' = [sdp EXCEPT !.parsed = Some(parse(Val(sdp.str)))]
  /\ UNCHANGED demuxer

Next ==
  \/ Open
  \/ StartStreaming
  \/ ReadNext
  \/ FireTimer
  \/ Tick

\* the application also calls close() and getTimeUntilDTS()
NextApi ==
  \/ Next
  \/ Close
  \/ GetTimeUntilDTS

\* the application also starts a new session on the open file
NextRestart ==
  \/ Next
  \/ StartStreamingAgain

Init == InitWith(PacingPackets, MaxPackets)
InitRestart == InitWith(RestartPackets, MaxRestartPackets)

\* src/sdp.js is called with options or with a string; the demultiplexer rests
NextSdp ==
  \/ CreateSDP
  \/ ParseCreated
  \/ Parse

InitSdp ==
  /\ InitDemuxer(PacingPackets, MaxPackets)
  /\ sdp \in {[NoSdp EXCEPT !.opts = Some(o)] : o \in PresenceOpts \cup ValueOpts \cup SectionOpts}
             \cup {[NoSdp EXCEPT !.str = Some(s)] : s \in SdpStrings \cup SdpDocuments}
InitTables == InitWith(TablePackets, MaxTablePackets)
InitAdaptation == InitWith(AdaptationPackets, MaxAdaptationPackets)
InitPsi == InitWith(PsiPackets, MaxPsiPackets)
InitDrain == InitWith(DrainPackets, MaxDrainPackets)

Spec == Init /\ [][Next]_vars
SpecApi == Init /\ [][NextApi]_vars
SpecTables == InitTables /\ [][Next]_vars
SpecDrain == InitDrain /\ [][Next]_vars
SpecRestart == InitRestart /\ [][NextRestart]_vars
SpecSdp == InitSdp /\ [][NextSdp]_vars
SpecAdaptation == InitAdaptation /\ [][Next]_vars
SpecPsi == InitPsi /\ [][Next]_vars

\* ------------------------------------------------------------ claims
AvEvents == {i \in 1..Len(emitted) : emitted[i].name \in {"video", "audio"}}
EndEmitted == \E i \in 1..Len(emitted) : emitted[i].name = "end"

\* 90 * (streamingStartTime + (d - firstDTS)/90 - 20), the instant of claim C1
\* for a PES with DTS d, in units of 1/90 ms
Due90(d) ==
  90 * Val(streamingStartTime) + (d - Val(firstDTS)) - 90 * SETTIMEOUT_ADVANCE_TIME

\* C1 as stated: every audio or video event of a PES with DTS d is emitted no
\* earlier than streamingStartTime + (d - firstDTS)/90 - 20 ms.
C1_NotBeforeDue ==
  \A i \in AvEvents : 90 * now >= Due90(Val(emitted[i].pes.DTS))

\* C1 amended: every audio or video event of a PES with DTS d is emitted later
\* than streamingStartTime + (d - firstDTS)/90 - 20 ms minus half a millisecond
\* (the delay is rounded to the nearest millisecond), for every packet of the
\* queue and whatever the order in which the timers fire.
C1_NotBeforeRoundedDue ==
  \A i \in AvEvents : 90 * now + 45 > Due90(Val(emitted[i].pes.DTS))

\* C1 witness: a PES of the second position of its queue, due 10 ms after the
\* start, is emitted at that instant, after the audio timers have waited.
C1_Witness ==
  /\ Len(emitted) = 1
  /\ emitted[1].name = "audio"
  /\ Len(hist.out["audio"]) = 2
  /\ Due90(Val(emitted[1].pes.DTS)) = 90 * now
  /\ now > 0

\* C2: the end event is emitted at most once per session, and only when EOF has
\* been observed and both pending queues are empty.
C2_EndOnceAtEofEmpty ==
  /\ hist.nEnd <= 1
  /\ EndEmitted => /\ isEOF
                   /\ pendingVideoPesPackets = <<>>
                   /\ pendingAudioPesPackets = <<>>

\* C2 witness: the end event has just been emitted, after an audio and a video
\* event.
C2_Witness ==
  /\ EndEmitted
  /\ hist.nEnd = 1
  /\ hist.out["video"] # <<>>
  /\ hist.out["audio"] # <<>>

\* no handler is running and no callback is scheduled
Quiescent == pc = "idle" /\ timers = <<>>

\* C3 as stated: for a finite input the session reaches EOF, every queued PES
\* is emitted and, once a queue has become empty with EOF reached and the other
\* queue empty, the end event is emitted. In a session that reached EOF, has
\* emitted PES, has empty queues and nothing left to run, the end event has
\* therefore been emitted.
C3_EndAfterLastPacket ==
  ( /\ Quiescent
    /\ isEOF
    /\ ~hist.uncaught
    /\ pendingVideoPesPackets = <<>>
    /\ pendingAudioPesPackets = <<>>
    /\ hist.out["video"] \o hist.out["audio"] # <<>> )
  => hist.nEnd = 1

\* the PES in the queues and the PES emitted so far, by identity
Pending == pendingVideoPesPackets \o pendingAudioPesPackets
PendingIds == {[pid |-> Pending[i].pes.pid, seq |-> Pending[i].pes.seq] : i \in 1..Len(Pending)}
Out == hist.out["video"] \o hist.out["audio"]
OutIds == {[pid |-> Out[i].pid, seq |-> Out[i].seq] : i \in 1..Len(Out)}
InList == {Id(unparsedPESPackets[i]) : i \in 1..Len(unparsedPESPackets)}
AvPIDs == {Val(o) : o \in {audioPID, videoPID} \ {None}}

\* C4 as stated: a PES with an audio or video stream_id on a PID that a later
\* program map declares as the audio or video PID is emitted: no such PES has
\* been dropped from the deferred list.
C4_DeclaredLaterIsEmitted ==
  \A d \in hist.dropped : d.pid \notin AvPIDs

\* C4 amended: for an input that decodes without error, every PES with an
\* audio or video stream_id that is dispatched on the audio or video PID, on
\* arrival or when the deferred list is drained at the next program map, is
\* queued and emitted exactly once: the PES dispatched are those queued or
\* emitted, each once, and all of them have been emitted when no callback is
\* left to run. A deferred audio or video PES is still deferred, or was
\* dispatched by a drain, or was dropped by a drain that found its PID unknown.
C4_DispatchedEmittedOnce ==
  ~hist.uncaught =>
    /\ hist.deferred \subseteq (InList \cup hist.dropped \cup hist.dispatched)
    /\ hist.dispatched = PendingIds \cup OutIds
    /\ Len(Pending) + Len(Out) = Cardinality(hist.dispatched)
    /\ Quiescent => (Pending = <<>> /\ hist.dispatched = OutIds)

\* C4 witness: a PES dispatched from the deferred list and a PES dispatched on
\* arrival have both been emitted and nothing is left to run.
C4_Witness ==
  /\ ~hist.uncaught
  /\ Quiescent
  /\ hist.dispatched \ hist.deferred # {}
  /\ hist.dispatched \cap hist.deferred # {}
  /\ hist.dispatched = OutIds

\* C5 as stated: every emitted audio or video event carries a PTS and a DTS
\* with DTS <= PTS, and the DTS equals the PTS when the header carried no DTS.
C5_DtsNotAfterPts ==
  \A i \in AvEvents :
    LET pes == emitted[i].pes IN
    /\ pes.PTS # None
    /\ pes.DTS # None
    /\ Val(pes.DTS) <= Val(pes.PTS)
    /\ pes.header.PTS_DTS_flags = 2 => pes.DTS = pes.PTS

\* C5 amended: every emitted audio or video event carries the PTS of its PES
\* header and a DTS; the DTS is the DTS of the header when the header carried
\* one (whatever its order with the PTS), and equals the PTS when it did not.
C5_DtsOfHeaderOrPts ==
  \A i \in AvEvents :
    LET pes == emitted[i].pes IN
    /\ pes.PTS # None
    /\ pes.DTS # None
    /\ pes.PTS = pes.header.PTS
    /\ pes.header.PTS_DTS_flags = 3 => pes.DTS = pes.header.DTS
    /\ pes.header.PTS_DTS_flags = 2 => pes.DTS = pes.PTS

\* C5 witness: one step emits a PES whose header carried no DTS and a PES
\* whose header carried a DTS after its PTS.
C5_Witness ==
  /\ \E i \in AvEvents : /\ emitted[i].pes.header.PTS_DTS_flags = 2
                         /\ emitted[i].pes.DTS = emitted[i].pes.PTS
  /\ \E i \in AvEvents : /\ emitted[i].pes.header.PTS_DTS_flags = 3
                         /\ emitted[i].pes.DTS = emitted[i].pes.header.DTS
                         /\ Val(emitted[i].pes.DTS) > Val(emitted[i].pes.PTS)

\* the events of one kind that came from one PID, in the order of emission
OutOf(kind, pid) == SelectSeq(hist.out[kind], LAMBDA e : e.pid = pid)
Kinds == {"video", "audio"}

\* C6 as stated: the DTS of the events of each kind never decreases when the
\* DTS of the PES of each PID never decreases in the input.
C6_DtsPerKind ==
  hist.inputInOrder =>
    \A k \in Kinds : \A i \in 1..Len(hist.out[k]) : \A j \in 1..Len(hist.out[k]) :
      i < j => hist.out[k][i].DTS <= hist.out[k][j].DTS

\* C6 amended: within each kind, the events of the PES of one PID are emitted
\* in the order in which those PES occur in the input, the deferred ones
\* included; hence the DTS of the events of one kind and one PID never
\* decreases when the DTS of the PES of each PID never decreases in the input.
C6_OrderPerPid ==
  \A k \in Kinds : \A p \in PIDs :
    LET o == OutOf(k, p) IN
    \A i \in 1..Len(o) : \A j \in 1..Len(o) :
      i < j => /\ o[i].seq < o[j].seq
               /\ hist.inputInOrder => o[i].DTS <= o[j].DTS

\* C6 witness: a PES that went through the deferred list and a later PES of
\* the same PID and kind have been emitted.
C6_Witness ==
  \E k \in Kinds : \E p \in PIDs :
    /\ Len(OutOf(k, p)) = 2
    /\ [pid |-> p, seq |-> OutOf(k, p)[1].seq] \in hist.deferred
    /\ [pid |-> p, seq |-> OutOf(k, p)[2].seq] \notin hist.deferred

\* C7 as stated: when readNext is about to pull a PES, one of the queues has
\* fewer than 2 entries; when readNext has returned and the input is not at
\* EOF, one of the queues has 2 entries or more.
C7_LookAhead ==
  /\ pc = "readNext" =>
       \/ Len(pendingVideoPesPackets) < 2
       \/ Len(pendingAudioPesPackets) < 2
  /\ (hist.returned /\ ~isEOF) =>
       \/ Len(pendingVideoPesPackets) >= 2
       \/ Len(pendingAudioPesPackets) >= 2

\* C8 as stated: after close() during streaming no audio, video or end event
\* is emitted, the timers are released and both queues are dropped.
C8_ClosedIsSilent ==
  (tsBuf = "null" /\ streamingStartTime # None) =>
    /\ emitted = <<>>
    /\ timers = <<>>
    /\ pendingVideoPesPackets = <<>>
    /\ pendingAudioPesPackets = <<>>

\* the cells of the session
session == << tsBuf, tsBits, isSyncByteDetermined, programTable, unparsedPESPackets,
              audioPID, videoPID, pendingVideoPesPackets, pendingAudioPesPackets,
              streamingStartTime, firstDTS, bufferingPESData, isEOF, timers >>

\* C9: getTimeUntilDTS(dts) throws exactly when firstDTS is not set, a call
\* changes no session state, and once firstDTS is set the call returns
\* streamingStartTime + (dts - firstDTS)/90 - now.
C9_GetTimeUntilDTS ==
  /\ [] (hist.api # None =>
          LET r == Val(hist.api) IN
          /\ r.threw <=> firstDTS = None
          /\ ~r.threw =>
               r.value90 = 90 * (Val(streamingStartTime) - now) + (r.dts - Val(firstDTS)))
  /\ [][hist'.api # None => UNCHANGED session]_vars

\* C9 witness: a call has thrown before the first DTS
C9_Witness ==
  /\ hist.api # None
  /\ Val(hist.api).threw
  /\ streamingStartTime # None

\* C10: once sync is locked, a transport packet is decoded only from a position
\* whose byte is 0x47; a position with another byte raises an error, decodes
\* no packet, and no transport packet is read afterwards.
C10_LockedBoundary ==
  /\ [] ((hist.tsRead # None /\ Val(hist.tsRead).wasLocked) =>
          LET r == Val(hist.tsRead) IN
          /\ r.decoded <=> r.currentByte = SYNC_BYTE
          /\ ~r.decoded => isEOF)
  /\ [][(hist.tsRead # None /\ ~Val(hist.tsRead).decoded) => tsBits' = tsBits]_vars

\* C10 witness: locked, the reader met a byte other than 0x47 after it had
\* decoded packets
C10_Witness ==
  /\ hist.tsRead # None
  /\ Val(hist.tsRead).wasLocked
  /\ Val(hist.tsRead).currentByte # SYNC_BYTE
  /\ ~Val(hist.tsRead).decoded
  /\ Val(tsBits).packets >= 2

\* C11 as stated: the sync lock is set only at a 0x47 whose positions +188,
\* +376, +564 and +752 hold 0x47 as well; a 0x47 that fails this check does not
\* lock.
C11_LockOnlyWhereAligned ==
  (isSyncByteDetermined /\ hist.lock # None) => Val(hist.lock).aligned

\* C12 as stated: an audio or video PES that arrived on a PID before the
\* program map declaring that PID was parsed is eventually emitted after that
\* program map is parsed: when nothing is left to run, every deferred PES whose
\* PID has been declared as the audio or video PID has been emitted.
C12_DeferredEmittedOnceDeclared ==
  (~hist.uncaught /\ Quiescent) =>
    \A d \in hist.deferred : d.pid \in AvPIDs => d \in OutIds

\* C12 amended: a deferred audio or video PES is neither queued nor emitted
\* before a program map declaring its PID is parsed; it is dispatched when the
\* first program map decoded after its arrival is parsed: if its PID is then the
\* audio or video PID it is queued and, once no callback is left to run, has
\* been emitted as an event of the kind of its stream_id; otherwise it is
\* dropped and never emitted.
C12_DeferredEmittedAfterDrain ==
  /\ \A d \in hist.deferred \cap (PendingIds \cup OutIds) : d.pid \in AvPIDs
  /\ \A i \in AvEvents : emitted[i].name = emitted[i].pes.stream_id_type
  /\ ~hist.uncaught =>
       /\ InList \cap (PendingIds \cup OutIds) = {}
       /\ hist.dropped \cap (PendingIds \cup OutIds) = {}
       /\ hist.deferred \subseteq (InList \cup hist.dropped \cup PendingIds \cup OutIds)
       /\ Quiescent => hist.deferred \subseteq (InList \cup hist.dropped \cup OutIds)

\* C12 witness: an audio PES deferred before the program map has been emitted
\* as an audio event on the audio PID and nothing is left to run.
C12_Witness ==
  /\ ~hist.uncaught
  /\ Quiescent
  /\ audioPID # None
  /\ \E i \in 1..Len(hist.out["audio"]) :
       /\ hist.out["audio"][i].pid = Val(audioPID)
       /\ [pid |-> hist.out["audio"][i].pid, seq |-> hist.out["audio"][i].seq] \in hist.deferred

\* whether reading stopped at a transport packet that failed to decode, which
\* leaves the rest of the input unread
ReadFailed == hist.tsRead # None /\ ~Val(hist.tsRead).decoded

\* C13 as stated: getNextPESPacket returns null only when EOF is reached, no
\* reassembly buffer is pending and no input is left unread.
C13_NullOnlyAtEndOfInput ==
  (hist.got # None /\ Val(hist.got).null) =>
    (isEOF /\ DOMAIN bufferingPESData = {} /\ ~ReadFailed)

\* a call of getNextPESPacket returned (hist.got is set by the step)
C13_FlushStep ==
  /\ hist'.got # None
  /\ (isEOF \/ Val(hist'.got).is_last \/ Val(hist'.got).null) =>
       /\ isEOF'
       /\ tsBits' = tsBits \/ (~isEOF /\ ReadFailed')
       /\ IF DOMAIN bufferingPESData = {}
            THEN Val(hist'.got).null /\ bufferingPESData' = bufferingPESData
            ELSE /\ ~Val(hist'.got).null
                 /\ Val(hist'.got).is_last
                 /\ Val(hist'.got).pid \in DOMAIN bufferingPESData
                 /\ \A q \in DOMAIN bufferingPESData : Val(hist'.got).pid <= q
                 /\ bufferingPESData' = Remove(bufferingPESData, Val(hist'.got).pid)

\* C13 amended: once the EOF flag is set (the input is exhausted, or a
\* transport packet failed to decode and the rest of the input stays unread),
\* the flag stays set, nothing more is read, and each call of getNextPESPacket
\* returns the pending buffer of the lowest PID with is_last = true and removes
\* it, so every pending buffer is returned once in ascending PID order; when no
\* buffer is pending the call returns null. null is returned only with the EOF
\* flag set and no pending buffer, and a PES with is_last only with the flag set.
C13_FlushAscendingThenNull ==
  /\ [](hist.got # None =>
          /\ Val(hist.got).null => (isEOF /\ DOMAIN bufferingPESData = {})
          /\ Val(hist.got).is_last => (isEOF /\ Val(hist.got).pid \notin DOMAIN bufferingPESData))
  /\ [][isEOF => isEOF' /\ tsBits' = tsBits]_vars
  /\ [][hist'.got # None => C13_FlushStep]_vars

\* C13 witness: at the end of a three-packet input the buffers of three PIDs
\* have been returned, one PES each, and the next call has returned null.
C13_Witness ==
  /\ hist.got # None /\ Val(hist.got).null
  /\ isEOF /\ ~ReadFailed
  /\ Val(tsBits).packets = 3
  /\ hist.nCompleted[PID_PROGRAM_ASSOCIATION_TABLE] = 1
  /\ hist.nCompleted[PmtPid] = 1
  /\ hist.nCompleted[HighEsPid] = 1

\* C14 as stated: when decoding a transport packet fails in the producer loop
\* the error is contained: isEOF is set, the PES in the pending queues are
\* still emitted and the fragments buffered per PID are still flushed. Once
\* nothing is left to run after such a failure, the queues are empty and no
\* reassembly buffer is pending.
C14_FailureStillFlushes ==
  (ReadFailed /\ ~hist.uncaught /\ Quiescent) =>
    (isEOF /\ Pending = <<>> /\ DOMAIN bufferingPESData = {})

\* C15 as stated: immediately after the reset of startStreaming, first or
\* second call, first_dts is unset, both pending queues are empty, the audio
\* and video PIDs are unset, the PAT/PMT maps, the reassembly buffers and the
\* deferred list are empty, is_eof and sync_locked are false and no timer of an
\* earlier session is left to emit an event.
C15_FreshSession ==
  hist.started =>
    /\ firstDTS = None
    /\ pendingVideoPesPackets = <<>> /\ pendingAudioPesPackets = <<>>
    /\ audioPID = None /\ videoPID = None
    /\ programTable = {}
    /\ DOMAIN bufferingPESData = {}
    /\ unparsedPESPackets = <<>>
    /\ ~isEOF /\ ~isSyncByteDetermined
    /\ timers = <<>>

\* C16: createSDP fails with an error naming a missing option, and returns no
\* document, when a required option is null or undefined: username, sessionID,
\* sessionVersion, addressType and unicastAddress always, the payload type,
\* encoding name and clock rate of audio exactly when hasAudio, those of video
\* exactly when hasVideo; with every required option given it does not fail.
C16_MissingOptionFails ==
  sdp.created # None =>
    LET o == Val(sdp.opts)
        required == {"username", "sessionID", "sessionVersion", "addressType", "unicastAddress"}
                    \cup (IF o.hasAudio
                            THEN {"audioPayloadType", "audioEncodingName", "audioClockRate"}
                            ELSE {})
                    \cup (IF o.hasVideo
                            THEN {"videoPayloadType", "videoEncodingName", "videoClockRate"}
                            ELSE {})
        missing == {p \in required : o[p] = None}
    IN IF missing # {}
         THEN /\ Val(sdp.created).threw
              /\ Val(sdp.created).prop \in missing
              /\ Val(sdp.created).sdpBody = <<>>
         ELSE ~Val(sdp.created).threw

\* C16 witness: with hasVideo and without hasAudio, createSDP has failed naming
\* videoClockRate although audioPayloadType is missing too.
C16_Witness ==
  /\ sdp.created # None
  /\ Val(sdp.opts).hasVideo /\ ~Val(sdp.opts).hasAudio
  /\ Val(sdp.opts).audioPayloadType = None
  /\ Val(sdp.opts).videoClockRate = None
  /\ Val(sdp.created).threw
  /\ Val(sdp.created).prop = "videoClockRate"

\* C17: every line of the document returned by createSDP is terminated by
\* CRLF: the document ends with CRLF and holds no LF that a CR does not
\* immediately precede.
C17_CrlfTerminated ==
  (sdp.created # None /\ ~Val(sdp.created).threw) =>
    LET d == Val(sdp.created).sdpBody
    IN /\ Len(d) >= 2
       /\ d[Len(d) - 1] = "\r" /\ d[Len(d)] = "\n"
       /\ \A i \in 1..Len(d) : d[i] = "\n" => (i > 1 /\ d[i - 1] = "\r")

\* C17 witness: a document with audio and video sections was returned for
\* options of which one holds a line feed.
C17_Witness ==
  /\ sdp.created # None
  /\ ~Val(sdp.created).threw
  /\ Val(sdp.opts).hasAudio /\ Val(sdp.opts).hasVideo
  /\ Val(sdp.opts).videoFrameRate # None
  /\ \E i \in 1..Len(Val(Val(sdp.opts).videoFrameRate)) :
       Val(Val(sdp.opts).videoFrameRate)[i] = "\n"

\* what parse(createSDP(opts)) gives, for options with hasVideo: the origin
\* fields are the options, and exactly one media section is of kind video,
\* with the payload type as its integer fmt, the clock rate of the options,
\* packetization-mode "1" and the given sprop-parameter-sets
RoundTrip(o, r) ==
  /\ ~r.threw
  /\ r.session.origin # None
  /\ Val(r.session.origin).username = o.username
  /\ Val(r.session.origin).sessId = o.sessionID
  /\ Val(r.session.origin).sessVersion = o.sessionVersion
  /\ Val(r.session.origin).addrtype = o.addressType
  /\ Val(r.session.origin).unicastAddress = o.unicastAddress
  /\ Cardinality({i \in 1..Len(r.session.media) :
                    r.session.media[i].media = Some(<<"v", "i", "d", "e", "o">>)}) = 1
  /\ \A i \in 1..Len(r.session.media) :
       r.session.media[i].media = Some(<<"v", "i", "d", "e", "o">>) =>
         /\ r.session.media[i].fmt = [number |-> TRUE, value |-> o.videoPayloadType]
         /\ r.session.media[i].clockRate = Some(o.videoClockRate)
         /\ r.session.media[i].fmtpParams # None
         /\ <<"p", "a", "c", "k", "e", "t", "i", "z", "a", "t", "i", "o", "n", "-", "m", "o", "d",
             "e">> \in DOMAIN Val(r.session.media[i].fmtpParams)
         /\ Val(r.session.media[i].fmtpParams)[<<"p", "a", "c", "k", "e", "t", "i", "z", "a", "t",
             "i", "o", "n", "-", "m", "o", "d", "e">>] = <<"1">>
         /\ o.videoSpropParameterSets # None =>
              /\ <<"s", "p", "r", "o", "p", "-", "p", "a", "r", "a", "m", "e", "t", "e", "r", "-",
                  "s", "e", "t", "s">> \in DOMAIN Val(r.session.media[i].fmtpParams)
              /\ Val(r.session.media[i].fmtpParams)[<<"s", "p", "r", "o", "p", "-", "p", "a", "r",
                  "a", "m", "e", "t", "e", "r", "-", "s", "e", "t", "s">>]
                   = Val(o.videoSpropParameterSets)

\* option values that the document carries unchanged: a token is not empty and
\* holds no white space, a text holds no line break, a parameter holds neither
\* a line break nor ";"
IsToken(v) == v # None /\ Val(v) # <<>> /\ \A i \in 1..Len(Val(v)) : ~IsSpace(Val(v)[i])
IsText(v) == v = None \/ \A i \in 1..Len(Val(v)) : ~IsLineTerminator(Val(v)[i])
IsParameter(v) == IsText(v) /\ (v = None \/ \A i \in 1..Len(Val(v)) : Val(v)[i] # ";")
CleanOpts(o) ==
  /\ IsToken(o.username) /\ IsToken(o.sessionID) /\ IsToken(o.sessionVersion)
  /\ IsToken(o.addressType) /\ IsToken(o.unicastAddress)
  /\ IsText(o.videoEncodingName)
  /\ \A i \in 1..Len(Val(o.videoEncodingName)) : Val(o.videoEncodingName)[i] # "/"
  /\ IsParameter(o.videoProfileLevelId) /\ IsParameter(o.videoSpropParameterSets)
  /\ IsText(o.videoFrameRate)
  /\ o.hasAudio => IsText(o.audioEncodingName)

\* C18 as stated: for options with hasVideo, parse(createSDP(opts)) gives back
\* the origin options and one video media section with the payload type, the
\* clock rate, packetization-mode "1" and the given sprop-parameter-sets.
C18_RoundTrip ==
  (sdp.opts # None /\ sdp.parsed # None /\ Val(sdp.opts).hasVideo) =>
    RoundTrip(Val(sdp.opts), Val(sdp.parsed))

\* C18 amended: the round trip holds for options with hasVideo whose origin
\* options are non-empty strings without white space, whose string options
\* hold no line break, whose videoEncodingName holds no "/" and whose
\* videoProfileLevelId and videoSpropParameterSets hold no ";".
C18_RoundTripCleanOptions ==
  (sdp.opts # None /\ sdp.parsed # None /\ Val(sdp.opts).hasVideo /\ CleanOpts(Val(sdp.opts))) =>
    RoundTrip(Val(sdp.opts), Val(sdp.parsed))

\* C18 witness: a document with an audio and a video section, built from clean
\* options with sprop-parameter-sets and a profile-level-id, has been parsed.
C18_Witness ==
  /\ sdp.opts # None /\ sdp.parsed # None
  /\ Val(sdp.opts).hasVideo /\ Val(sdp.opts).hasAudio
  /\ CleanOpts(Val(sdp.opts))
  /\ Val(sdp.opts).videoSpropParameterSets # None
  /\ Val(sdp.opts).videoProfileLevelId # None
  /\ Len(Val(sdp.parsed).session.media) = 2
  /\ RoundTrip(Val(sdp.opts), Val(sdp.parsed))

\* C19 as stated: parse fails with an invalid-line error for every input that
\* holds a non-empty line which is not one key character followed by "=" and a
\* value (a value holds no line terminator).
C19_InvalidLineFails ==
  (sdp.str # None /\ sdp.parsed # None) =>
    ((\E i \in 1..Len(SplitLines(Val(sdp.str))) :
        LET line == SplitLines(Val(sdp.str))[i]
        IN /\ line # <<>>
           /\ ~(/\ Len(line) >= 2
                /\ line[2] = "="
                /\ \A k \in 1..Len(line) : ~IsLineTerminator(line[k])))
     => Val(sdp.parsed).threw)

\* C20 as stated: after an enqueue, readNext pulls another PES only while both
\* pending queues hold fewer than 2 entries, and yields as soon as either
\* holds 2: when readNext has queued a PES, it calls itself again exactly when
\* both queues are shorter than 2.
C20_YieldsWhenEitherHoldsTwo ==
  hist.enqueued =>
    (pc = "readNext" <=>
       (Len(pendingVideoPesPackets) < 2 /\ Len(pendingAudioPesPackets) < 2))

\* C21 as stated: the pending queues are bounded by a constant that does not
\* depend on the length of the input, also for an input with one kind of
\* stream and for the packets queued by the deferred-parse drain. With a
\* look-ahead of 2 entries per kind, neither queue ever holds more than twice
\* the look-ahead.
C21_QueuesBounded ==
  /\ Len(pendingVideoPesPackets) <= 4
  /\ Len(pendingAudioPesPackets) <= 4

\* C22 as stated: a consume step that empties its queue while the input is not
\* at EOF resumes the producer loop, so that the remaining input is eventually
\* read, also in a chain started for a packet queued by the deferred-parse
\* drain. A started session in which nothing is left to run, and in which no
\* handler failed, has therefore read its input to the end.
C22_InputReadToTheEnd ==
  ( /\ Quiescent
    /\ streamingStartTime # None
    /\ tsBuf = "file"
    /\ ~hist.uncaught )
  => isEOF

\* the PES that the step just taken got from getNextPESPacket, if any
GotPes == hist'.got # None /\ ~Val(hist'.got).null
GotPid == Val(hist'.got).pid

\* whether parsePESPacket knows the PID in the state before the step
KnownPid(pid) ==
  \/ pid = PID_PROGRAM_ASSOCIATION_TABLE
  \/ Some(pid) = videoPID
  \/ Some(pid) = audioPID
  \/ pid \in programTable

\* position of the PES with identity id in the deferred list before the step
RECURSIVE DeferredIndex(_, _)
DeferredIndex(id, i) ==
  IF i > Len(unparsedPESPackets) THEN 0
  ELSE IF Id(unparsedPESPackets[i]) = id THEN i
  ELSE DeferredIndex(id, i + 1)

\* the entries that the step appended to a queue come from the deferred list,
\* in the order of the list
InArrivalOrder(before, after) ==
  /\ Len(after) >= Len(before)
  /\ SubSeq(after, 1, Len(before)) = before
  /\ \A i \in (Len(before) + 1)..Len(after) : DeferredIndex(Id(after[i].pes), 1) > 0
  /\ \A i, j \in (Len(before) + 1)..Len(after) :
       i < j => DeferredIndex(Id(after[i].pes), 1) < DeferredIndex(Id(after[j].pes), 1)

\* a PES of an unknown PID joins the deferred list and changes nothing else
C23_DeferStep ==
  (GotPes /\ ~KnownPid(GotPid)) =>
    /\ Len(unparsedPESPackets') = Len(unparsedPESPackets) + 1
    /\ SubSeq(unparsedPESPackets', 1, Len(unparsedPESPackets)) = unparsedPESPackets
    /\ unparsedPESPackets'[Len(unparsedPESPackets')].pid = GotPid
    /\ UNCHANGED <<programTable, audioPID, videoPID, firstDTS, timers,
                   pendingVideoPesPackets, pendingAudioPesPackets>>
    /\ hist'.dispatched = hist.dispatched
    /\ emitted' = <<>>

\* a decoded program map drains the deferred list
C23_DrainStep ==
  ( /\ GotPes
    /\ GotPid # PID_PROGRAM_ASSOCIATION_TABLE
    /\ Some(GotPid) \notin {videoPID, audioPID}
    /\ GotPid \in programTable
    /\ ~hist'.failed ) =>
    /\ unparsedPESPackets' = <<>>
    /\ InArrivalOrder(pendingVideoPesPackets, pendingVideoPesPackets')
    /\ InArrivalOrder(pendingAudioPesPackets, pendingAudioPesPackets')
    /\ \A i \in 1..Len(unparsedPESPackets) :
         Some(unparsedPESPackets[i].pid) \notin {videoPID', audioPID'} =>
           /\ \A k \in 1..Len(pendingVideoPesPackets') :
                Id(pendingVideoPesPackets'[k].pes) # Id(unparsedPESPackets[i])
           /\ \A k \in 1..Len(pendingAudioPesPackets') :
                Id(pendingAudioPesPackets'[k].pes) # Id(unparsedPESPackets[i])

\* C23: a PES whose PID is neither 0, nor a program_map_PID of the current PAT,
\* nor the audio or video PID is appended to the deferred list and nothing is
\* decoded from it; when a program map is decoded the deferred list is
\* dispatched in arrival order, the packets whose PID is still unknown are
\* dropped, and the deferred list is empty afterwards.
C23_DeferredThenDrained ==
  [][C23_DeferStep /\ C23_DrainStep]_vars

\* C23 witness: a program map was just decoded with two audio PES in the
\* deferred list; both are in the audio queue in arrival order and the list is
\* empty.
C23_Witness ==
  /\ hist.got # None
  /\ ~Val(hist.got).null
  /\ Val(hist.got).pid = PmtPid
  /\ ~hist.failed
  /\ unparsedPESPackets = <<>>
  /\ Len(pendingAudioPesPackets) = 2
  /\ Id(pendingAudioPesPackets[1].pes) \in hist.deferred
  /\ Id(pendingAudioPesPackets[2].pes) \in hist.deferred
  /\ pendingAudioPesPackets[1].pes.seq < pendingAudioPesPackets[2].pes.seq

\* the transport packet that the step just taken decoded, if any
TsRead == hist'.ts # None
TsPacket == Val(hist'.ts)

\* the buffers of the PIDs other than pid are as before the step
OtherBuffersUnchanged(pid) ==
  /\ DOMAIN bufferingPESData' \ {pid} = DOMAIN bufferingPESData \ {pid}
  /\ \A q \in DOMAIN bufferingPESData \ {pid} : bufferingPESData'[q] = bufferingPESData[q]

\* the step returned no PES from getNextPESPacket: its loop goes on
NoPesReturned == hist'.got = None /\ pc' = "getNextPESPacket"

C24_ReassemblyStep ==
  TsRead =>
    /\ OtherBuffersUnchanged(TsPacket.pid)
    /\ IF TsPacket.pid \notin DOMAIN bufferingPESData
         THEN IF TsPacket.payload_unit_start_indicator = 1
                THEN /\ TsPacket.pid \in DOMAIN bufferingPESData'
                     /\ bufferingPESData'[TsPacket.pid] = <<TsPacket.data>>
                     /\ NoPesReturned
                ELSE /\ TsPacket.pid \notin DOMAIN bufferingPESData'
                     /\ NoPesReturned
         ELSE IF TsPacket.payload_unit_start_indicator = 1
                THEN /\ bufferingPESData'[TsPacket.pid] = <<TsPacket.data>>
                     /\ hist'.got = Some([null |-> FALSE, pid |-> TsPacket.pid,
                                          is_last |-> FALSE,
                                          data |-> bufferingPESData[TsPacket.pid]])
                ELSE /\ bufferingPESData'[TsPacket.pid] =
                          Append(bufferingPESData[TsPacket.pid], TsPacket.data)
                     /\ NoPesReturned

\* C24: reassembly per PID. A payload for a PID without open buffer opens one
\* only if PUSI = 1 and is otherwise dropped, so it is in no buffer and in no
\* PES; a payload with PUSI = 1 for a PID with an open buffer closes the buffer,
\* whose fragments are returned as one PES, and is the first fragment of the
\* new buffer; a payload with PUSI = 0 for a PID with an open buffer is
\* appended to it. The buffers of the other PIDs do not change.
C24_ReassemblyPerPid ==
  [][C24_ReassemblyStep]_vars

\* C24 witness: a packet with PUSI = 1 closed a buffer of two fragments (a
\* start and a continuation), returned as one PES, and opened the new buffer.
C24_Witness ==
  /\ hist.ts # None
  /\ Val(hist.ts).payload_unit_start_indicator = 1
  /\ hist.got # None
  /\ ~Val(hist.got).null
  /\ ~Val(hist.got).is_last
  /\ Len(Val(hist.got).data) = 2
  /\ Val(hist.got).data[2] = Continuation
  /\ bufferingPESData[Val(hist.ts).pid] = <<Val(hist.ts).data>>

\* C25 as stated: only transport packets that carry a payload contribute to
\* reassembly. A packet with adaptation_field_control 2 adds no fragment to the
\* buffer of its PID, so the last fragment of that buffer is not an absent
\* payload, and the decode of a PES is not made to fail by an absent payload
\* among its fragments.
C25_OnlyPayloadsAreFragments ==
  /\ ( /\ hist.ts # None
       /\ Val(hist.ts).adaptation_field_control = 2
       /\ Val(hist.ts).pid \in DOMAIN bufferingPESData ) =>
       bufferingPESData[Val(hist.ts).pid][Len(bufferingPESData[Val(hist.ts).pid])] # Undefined
  /\ ( /\ hist.got # None
       /\ ~Val(hist.got).null
       /\ \E i \in 1..Len(Val(hist.got).data) : Val(hist.got).data[i] = Undefined ) =>
       ~hist.failed

\* C26 as stated: every successfully decoded transport packet advances the
\* reader by exactly 188 bytes, for every adaptation_field_control and
\* adaptation_field_length, so that every decoded packet starts 188*k bytes
\* after the offset of the sync lock.
C26_AdvancesByPacketSize ==
  (hist.tsRead # None /\ Val(hist.tsRead).decoded) =>
    /\ Val(hist.tsRead).advance = TS_PACKET_SIZE
    /\ Val(hist.tsRead).start % TS_PACKET_SIZE = 0

\* C27 as stated: read_adaptation_field never reads more bytes after the length
\* byte than adaptation_field_length, for every combination of flags and
\* lengths, and with the stuffing skipped it has consumed exactly
\* adaptation_field_length bytes after the length byte.
C27_WithinAdaptationFieldLength ==
  (hist.tsRead # None /\ Val(hist.tsRead).adaptation_field # None) =>
    /\ Val(Val(hist.tsRead).adaptation_field).read
         <= Val(Val(hist.tsRead).adaptation_field).adaptation_field_length
    /\ Val(hist.tsRead).decoded =>
         Val(Val(hist.tsRead).adaptation_field).advance
           = Val(Val(hist.tsRead).adaptation_field).adaptation_field_length + 1

\* C28 as stated: an adaptation field with opcr_flag = 1 is decoded like one
\* with pcr_flag = 1 and the decode of the transport packet succeeds.
C28_OpcrIsDecoded ==
  ( /\ hist.tsRead # None
    /\ Val(hist.tsRead).adaptation_field # None
    /\ Val(Val(hist.tsRead).adaptation_field).adaptation_field_length > 0
    /\ Val(Val(hist.tsRead).adaptation_field).opcr_flag = 1 )
  => Val(hist.tsRead).decoded

\* C29 as stated: for PAT and PMT payloads the decoder reads pointer_field and
\* skips that many bytes before table_id, so a section behind a non-zero
\* pointer_field is decoded like the section with pointer_field 0: a well-formed
\* PAT section got on PID 0 is decoded and sets the program table, and a
\* well-formed PMT section got on a program_map_PID is decoded, whatever
\* pointer_field is.
C29_PointerFieldSkipped ==
  (hist.got # None /\ ~Val(hist.got).null /\ Val(hist.got).data[1] # Undefined) =>
    /\ ( /\ Val(hist.got).pid = PID_PROGRAM_ASSOCIATION_TABLE
         /\ Val(hist.got).data[1].kind = "pat" ) =>
         /\ ~hist.failed
         /\ programTable = Val(hist.got).data[1].program_map_PIDs
    /\ ( /\ Val(hist.got).pid \in programTable
         /\ Some(Val(hist.got).pid) \notin {videoPID, audioPID}
         /\ Val(hist.got).data[1].kind = "pmt" ) =>
         ~hist.failed

\* the PID recorded for a stream type after the streams of a program map: the
\* elementary_PID of the last stream of that type, or the PID recorded before
RECURSIVE PidOfType(_, _, _)
PidOfType(streams, stream_type, pid) ==
  IF streams = <<>> THEN pid
  ELSE PidOfType(Tail(streams), stream_type,
                 IF Head(streams).stream_type = stream_type
                   THEN Some(Head(streams).elementary_PID)
                   ELSE pid)

\* the step got a PES on a program_map_PID, which parsePESPacket decodes as a
\* program map
GotProgramMap ==
  /\ GotPes
  /\ GotPid # PID_PROGRAM_ASSOCIATION_TABLE
  /\ Some(GotPid) \notin {videoPID, audioPID}
  /\ GotPid \in programTable

\* a decoded program map whose drain decodes no deferred program map sets the
\* PIDs from its streams
C30_ProgramMapStep ==
  ( /\ GotProgramMap
    /\ ~hist'.failed
    /\ \A i \in 1..Len(unparsedPESPackets) : unparsedPESPackets[i].pid \notin programTable ) =>
    /\ videoPID' = PidOfType(Val(hist'.got).data[1].streams, STREAM_TYPE_H264, videoPID)
    /\ audioPID' = PidOfType(Val(hist'.got).data[1].streams, STREAM_TYPE_AUDIO_ADTS, audioPID)

\* nothing but the decode of a program map changes the PIDs
C30_OtherStep ==
  (videoPID' # videoPID \/ audioPID' # audioPID) => GotProgramMap

\* C30: decoding a PMT sets videoPID to the elementary_PID of a stream with
\* stream_type 0x1B (the last one) and audioPID to that of a stream with
\* stream_type 0x0F (the last one); streams of other types change neither, no
\* other step changes them, and at most one audio PID and one video PID are
\* recorded.
C30_PidsFromProgramMap ==
  /\ [](Len(videoPID) <= 1 /\ Len(audioPID) <= 1)
  /\ [][C30_ProgramMapStep /\ C30_OtherStep]_vars

\* C30 witness: with the video PID recorded from an earlier program map, a
\* program map with an ADTS stream and a stream of another type was decoded:
\* the audio PID is that of the ADTS stream, the video PID is kept.
C30_Witness ==
  /\ hist.got # None
  /\ ~Val(hist.got).null
  /\ ~hist.failed
  /\ Val(hist.got).pid = PmtPid
  /\ Val(hist.got).data[1] = PmtSection(<<ADTS(HighEsPid), OtherStream(3, LowEsPid)>>)
  /\ audioPID = Some(HighEsPid)
  /\ videoPID = Some(HighEsPid)

C32_ProducerContinues ==
  (/\ hist.got # None
   /\ ~Val(hist.got).null
   /\ Val(hist.got).pid = PID_PROGRAM_ASSOCIATION_TABLE
   /\ Head(Val(hist.got).data) = Malformed)
  => (~hist.failed /\ pc = "readNext")

\* the stream_id values with (stream_id & 0xF0) == 0xE0 and with
\* (stream_id & 0xE0) == 0xC0
VideoStreamIds == 224..239
AudioStreamIds == 192..223

\* C33: a decoded PES is classified by its stream_id only, video for 0xE0..0xEF
\* and audio for 0xC0..0xDF; the video queue holds video-classified PES only and
\* the audio queue audio-classified PES only, so a PES of neither kind is in no
\* queue; a video event carries a video-classified PES and an audio event an
\* audio-classified PES, so a PES of neither kind produces no event.
C33_ClassifiedByStreamId ==
  /\ \A id \in 0..255 :
       /\ stream_id_type(id) = "video" <=> id \in VideoStreamIds
       /\ stream_id_type(id) = "audio" <=> id \in AudioStreamIds
  /\ \A i \in 1..Len(pendingVideoPesPackets) :
       pendingVideoPesPackets[i].pes.stream_id \in VideoStreamIds
  /\ \A i \in 1..Len(pendingAudioPesPackets) :
       pendingAudioPesPackets[i].pes.stream_id \in AudioStreamIds
  /\ \A i \in 1..Len(emitted) :
       /\ emitted[i].name \in {"video", "audio", "end"}
       /\ emitted[i].name = "video" => emitted[i].pes.stream_id \in VideoStreamIds
       /\ emitted[i].name = "audio" => emitted[i].pes.stream_id \in AudioStreamIds

\* C33 witness: a PES that is neither audio nor video was decoded with its
\* timestamp before the first video PES, and the video PES is being emitted.
C33_Witness ==
  /\ hist.firstStamped # None
  /\ hist.firstAv # None
  /\ hist.firstAv # hist.firstStamped
  /\ \E i \in 1..Len(emitted) : emitted[i].name = "video"

\* the consume callbacks of one kind that are scheduled (a timer, or an
\* immediate callback, which is a timer that is due at once)
Outstanding(callback) == {i \in 1..Len(timers) : timers[i].callback = callback}

\* C34: each kind has at most one outstanding consume callback, and a pending
\* queue is non-empty only if a consume callback of its kind is outstanding.
C34_QueuedHasConsumer ==
  /\ Cardinality(Outstanding("consumeVideo")) <= 1
  /\ Cardinality(Outstanding("consumeAudio")) <= 1
  /\ pendingVideoPesPackets # <<>> => Outstanding("consumeVideo") # {}
  /\ pendingAudioPesPackets # <<>> => Outstanding("consumeAudio") # {}

\* C34 witness: an audio packet has been emitted and the next one waits in the
\* queue for the one audio timer, which is not yet due.
C34_Witness ==
  /\ hist.out["audio"] # <<>>
  /\ pendingAudioPesPackets # <<>>
  /\ Cardinality(Outstanding("consumeAudio")) = 1
  /\ \E i \in Outstanding("consumeAudio") : timers[i].at > now

\* C35: the data of every PES that getNextPESPacket returns is made of the
\* payloads of the transport packets of its PID, in arrival order, from one
\* packet with PUSI = 1 up to the next one or the end of the input: its first
\* fragment is the payload of a packet that starts a unit and every other
\* fragment is the payload of a packet that continues it.
C35_DataIsPayloadsOfOneUnit ==
  (hist.got # None /\ ~Val(hist.got).null) =>
    /\ Val(hist.got).data # <<>>
    /\ Val(hist.got).data[1] \notin {Continuation, Undefined}
    /\ \A i \in 2..Len(Val(hist.got).data) : Val(hist.got).data[i] = Continuation

\* the document that parse was given, its last line, the document without
\* its last line, and what parse gives for that shorter document
Document == Val(sdp.str)
LastLineFeed ==
  IF \E i \in 1..Len(Document) : Document[i] = "\n"
    THEN CHOOSE i \in 1..Len(Document) :
           Document[i] = "\n" /\ \A k \in (i + 1)..Len(Document) : Document[k] # "\n"
    ELSE 0
LastLine == SubSeq(Document, LastLineFeed + 1, Len(Document))
Before == parse(SubSeq(Document, 1, LastLineFeed - 1)).session
After == Val(sdp.parsed).session

\* the attributes and the bandwidth that the last line gives its target
WithLastAttribute(attributes) ==
  Some(Put(IF attributes = None THEN <<>> ELSE Val(attributes),
           <<LastLine[3]>>,
           IF Len(LastLine) = 5 THEN <<LastLine[5]>> ELSE FlagTrue))
LastBandwidth == Some([bwtype |-> Some(<<LastLine[3]>>), bandwidth |-> Some(<<LastLine[5]>>)])

\* C36: parse stores an a= or b= line on the most recent media section, and
\* on the session when no m= line came before it, and an m= line adds a media
\* section and changes no earlier one: for every document, what parse gives
\* differs from what it gives for the document without its last line only by
\* that line, stored on the last media section of the shorter document (the
\* session when it has none), or by the new media section at the end.
C36_LineStoredOnCurrentSection ==
  (sdp.str # None /\ sdp.parsed # None /\ Document \in SdpDocuments) =>
    /\ ~Val(sdp.parsed).threw
    /\ LastLine[1] = "a" =>
         After = IF Before.media = <<>>
                   THEN [Before EXCEPT !.attributes = WithLastAttribute(@)]
                   ELSE [Before EXCEPT !.media[Len(Before.media)].attributes =
                                          WithLastAttribute(@)]
    /\ LastLine[1] = "b" =>
         After = IF Before.media = <<>>
                   THEN [Before EXCEPT !.bandwidth = LastBandwidth]
                   ELSE [Before EXCEPT !.media[Len(Before.media)].bandwidth = LastBandwidth]
    /\ LastLine[1] = "m" =>
         /\ Len(After.media) = Len(Before.media) + 1
         /\ SubSeq(After.media, 1, Len(Before.media)) = Before.media
         /\ After.media[Len(After.media)].media = Some(<<LastLine[3]>>)
         /\ After.media[Len(After.media)].attributes = None
         /\ After.media[Len(After.media)].bandwidth = None
         /\ [After EXCEPT !.media = Before.media] = Before

\* C36 witness: parse has read an a= line before the first m= line, an m= line,
\* an a= line after it and a second m= line: the session and the first media
\* section hold their own attribute and the second section holds none.
C36_Witness ==
  /\ sdp.str # None
  /\ sdp.parsed # None
  /\ Document \in SdpDocuments
  /\ Len(After.media) = 2
  /\ After.attributes = Some(<<"x">> :> <<"1">>)
  /\ After.media[1].attributes = Some(<<"x">> :> <<"2">>)
  /\ After.media[2].attributes = None

\* the document that createSDP returned, the index of the first place where
\* it holds the text sub (0 when it holds it nowhere), and whether it ends
\* with sub
Created == Val(sdp.created).sdpBody
Find(sub) ==
  IF \E i \in 1..(Len(Created) - Len(sub) + 1) : SubSeq(Created, i, i + Len(sub) - 1) = sub
    THEN CHOOSE i \in 1..(Len(Created) - Len(sub) + 1) :
           /\ SubSeq(Created, i, i + Len(sub) - 1) = sub
           /\ \A k \in 1..(i - 1) : SubSeq(Created, k, k + Len(sub) - 1) # sub
    ELSE 0
EndsAt(sub, end) ==
  end >= Len(sub) /\ SubSeq(Created, end - Len(sub) + 1, end) = sub

\* the lines of the sections, each after the end of the line before it
AudioLine == <<"\n", "m", "=", "a", "u", "d", "i", "o", " ">>
VideoLine == <<"\n", "m", "=", "v", "i", "d", "e", "o", " ">>
Track1Line ==
  <<"\n", "a", "=", "c", "o", "n", "t", "r", "o", "l", ":", "t", "r", "a", "c", "k", "I", "D",
    "=", "1", "\r", "\n">>
Track2Line ==
  <<"\n", "a", "=", "c", "o", "n", "t", "r", "o", "l", ":", "t", "r", "a", "c", "k", "I", "D",
    "=", "2", "\r", "\n">>
CliprectLine == <<"\n", "a", "=", "c", "l", "i", "p", "r", "e", "c", "t", ":">>
FramesizeLine == <<"\n", "a", "=", "f", "r", "a", "m", "e", "s", "i", "z", "e", ":">>
FramerateLine == <<"\n", "a", "=", "f", "r", "a", "m", "e", "r", "a", "t", "e", ":">>

\* C37: the document of createSDP holds the audio section exactly when hasAudio
\* is set and the video section exactly when hasVideo is set; the audio section
\* comes first and ends with a=control:trackID=1, the video section ends the
\* document with a=control:trackID=2; the document holds a=cliprect and
\* a=framesize, inside the video section, exactly when hasVideo is set and both
\* videoWidth and videoHeight are given, and a=framerate exactly when hasVideo
\* is set and videoFrameRate is given.
C37_SectionsFollowOptions ==
  (sdp.created # None /\ ~Val(sdp.created).threw) =>
    LET opts == Val(sdp.opts)
        audioEnd == IF opts.hasVideo THEN Find(VideoLine) ELSE Len(Created)
    IN /\ Find(AudioLine) # 0 <=> opts.hasAudio
       /\ Find(VideoLine) # 0 <=> opts.hasVideo
       /\ Find(Track1Line) # 0 <=> opts.hasAudio
       /\ Find(Track2Line) # 0 <=> opts.hasVideo
       /\ opts.hasAudio => EndsAt(Track1Line, audioEnd)
       /\ opts.hasVideo => EndsAt(Track2Line, Len(Created))
       /\ (opts.hasAudio /\ opts.hasVideo) => Find(AudioLine) < Find(VideoLine)
       /\ Find(CliprectLine) # 0 <=>
            (opts.hasVideo /\ opts.videoWidth # None /\ opts.videoHeight # None)
       /\ Find(FramesizeLine) # 0 <=>
            (opts.hasVideo /\ opts.videoWidth # None /\ opts.videoHeight # None)
       /\ Find(FramerateLine) # 0 <=> (opts.hasVideo /\ opts.videoFrameRate # None)
       /\ Find(CliprectLine) # 0 =>
            /\ Find(VideoLine) < Find(CliprectLine)
            /\ Find(CliprectLine) < Find(FramesizeLine)
       /\ Find(FramerateLine) # 0 => Find(VideoLine) < Find(FramerateLine)

\* C37 witness: createSDP has returned a document for options with audio and
\* video, a width and no height, and a frame rate: both sections and
\* a=framerate are there, a=cliprect is not.
C37_Witness ==
  /\ sdp.created # None
  /\ ~Val(sdp.created).threw
  /\ Val(sdp.opts).hasAudio
  /\ Val(sdp.opts).hasVideo
  /\ Val(sdp.opts).videoWidth # None
  /\ Val(sdp.opts).videoHeight = None
  /\ Find(AudioLine) # 0
  /\ Find(FramerateLine) > Find(VideoLine)
  /\ Find(CliprectLine) = 0

====
